---- MODULE Spec2Model ----
(***************************************************************************)
(* Newsletter subsystem of the portfolio site: the request handlers under  *)
(* src/portfolio/src/app/api (subscribe, newsletter/confirm,               *)
(* newsletter/unsubscribe, newsletter/send-upload), the subscribe-with-    *)
(* confirmation handler, and the Supabase tables they read and write       *)
(* (newsletter_subscribers, newsletter_tokens, newsletters).               *)
(*                                                                         *)
(* Every handler is split at its awaits: one action per store call or      *)
(* Mailer call, so that concurrent requests interleave exactly where the   *)
(* runtime lets them.  A store call or a Mailer call may fail; the number  *)
(* of injected failures per behaviour is bounded by MaxFaults.             *)
(***************************************************************************)
EXTENDS Integers, Sequences, FiniteSets, TLC

VARIABLES
    subscribers,   \* newsletter_subscribers: sequence of rows, id = index
    tokens,        \* newsletter_tokens: sequence of rows, id = index
    newsletters,   \* newsletters (issues): sequence of rows
    now,           \* wall clock, in days
    nextRaw,       \* next value crypto.randomBytes returns (never repeats)
    env,           \* process.env: which configuration values are set
    req,           \* in-flight subscription-manager requests, per slot
    job,           \* in-flight send-upload requests, per slot
    outbox,        \* mails the Mailer accepted
    blobs,         \* storage bucket "newsletters": uploaded storage paths
    faults,        \* store / Mailer failures injected so far
    ticks,         \* clock advances so far
    activations    \* per token id: status writes made by calls that
                   \* carried this token's raw value (for a confirm token
                   \* the activating writes of POST /api/newsletter/confirm
                   \* calls, for an unsubscribe token the unsubscribing
                   \* writes of POST /api/newsletter/unsubscribe calls)

vars == <<subscribers, tokens, newsletters, now, nextRaw, env, req, job,
          outbox, blobs, faults, ticks, activations>>

(***************************************************************************)
(* Bounds of the model.                                                    *)
(***************************************************************************)
MaxTokens == 2
MaxFaults == 1
MaxTicks  == 1
MaxIssues == 2

(***************************************************************************)
(* Program constants, in days.                                             *)
(***************************************************************************)
ConfirmTtl == 1
UnsubTtl   == 365
maxTries   == 4

Null == 0

(***************************************************************************)
(* Strings are sequences of one-character strings.                         *)
(***************************************************************************)
IsSpace(c) == c = " "

ToLowerCase(s) ==
    [i \in 1..Len(s) |->
        CASE s[i] = "A" -> "a"
          [] s[i] = "B" -> "b"
          [] s[i] = "C" -> "c"
          [] s[i] = "D" -> "d"
          [] s[i] = "R" -> "r"
          [] s[i] = "T" -> "t"
          [] s[i] = "M" -> "m"
          [] s[i] = "L" -> "l"
          [] s[i] = "P" -> "p"
          [] s[i] = "F" -> "f"
          [] OTHER -> s[i]]

RECURSIVE TrimLeft(_)
TrimLeft(s) ==
    IF s # <<>> /\ IsSpace(Head(s)) THEN TrimLeft(Tail(s)) ELSE s

RECURSIVE TrimRight(_)
TrimRight(s) ==
    IF s # <<>> /\ IsSpace(s[Len(s)])
    THEN TrimRight(SubSeq(s, 1, Len(s) - 1))
    ELSE s

Trim(s) == TrimRight(TrimLeft(s))

Includes(s, sub) ==
    \E i \in 1..(Len(s) - Len(sub) + 1) : SubSeq(s, i, i + Len(sub) - 1) = sub

\* /^[^\s@]+@[^\s@]+\.[^\s@]+$/
isValidEmail(email) ==
    \E i \in 2..Len(email) :
        /\ email[i] = "@"
        /\ \A k \in 1..Len(email) : k # i => ~IsSpace(email[k]) /\ email[k] # "@"
        /\ \E j \in (i + 2)..(Len(email) - 1) : email[j] = "."

\* emailRaw.trim().toLowerCase()
NormalizeNoLower(emailRaw) == Trim(emailRaw)
NormalizeEmail(emailRaw) == ToLowerCase(Trim(emailRaw))

(***************************************************************************)
(* Request bodies a client may send.                                       *)
(***************************************************************************)
EmailInputs ==
    { <<"a", "@", "b", ".", "c">>,
      <<"A", "@", "B", ".", "c">>,
      <<" ", "a", "@", "b", ".", "c", " ">>,
      <<"a", "@", "b">> }

(***************************************************************************)
(* sha256Hex: injective on the raw values in play, and its range is        *)
(* disjoint from the raw values.                                           *)
(***************************************************************************)
sha256HexPlain(raw) == raw
sha256Hex(raw) == 1000 + ((raw * 7 + 3) % 997)

NoToken == 0     \* body.token missing or blank
Forged  == 99    \* a raw value that was never issued

(***************************************************************************)
(* Rows and the store.                                                     *)
(***************************************************************************)
SubscriberRow(email, status) ==
    [email |-> email, status |-> status,
     confirmed_at |-> Null, welcome_sent_at |-> Null]

TokenRow(subscriberId, type, hash, expiresAt) ==
    [subscriber_id |-> subscriberId, type |-> type, token_hash |-> hash,
     expires_at |-> expiresAt, used_at |-> Null]

IssueRow(storagePath) == [storage_path |-> storagePath, is_latest |-> TRUE]

\* .from("newsletter_subscribers").select(...).eq("email", email).maybeSingle()
SubscriberIdsByEmail(email) ==
    {i \in DOMAIN subscribers : subscribers[i].email = email}

\* .from("newsletter_tokens").select(...).eq("type", t).eq("token_hash", h).maybeSingle()
TokenIdsByHashAnyType(type, hash) ==
    {i \in DOMAIN tokens : tokens[i].token_hash = hash}
TokenIdsByHash(type, hash) ==
    {i \in DOMAIN tokens : tokens[i].type = type /\ tokens[i].token_hash = hash}

\* The unique index on newsletter_subscribers.email: an insert of an email
\* that is already stored is refused.
SubscriberInsertAllowed(email) == SubscriberIdsByEmail(email) = {}

\* tokenRow.expires_at && tokenRow.expires_at <= nowIso
IsExpiredStrict(expiresAt, nowIso) == expiresAt # Null /\ expiresAt < nowIso
IsExpired(expiresAt, nowIso) == expiresAt # Null /\ expiresAt <= nowIso

(***************************************************************************)
(* Responses.                                                              *)
(***************************************************************************)
NoResp == [ok |-> FALSE, http |-> 0, status |-> "none"]
Ok(status) == [ok |-> TRUE, http |-> 200, status |-> status]
Err(http, error) == [ok |-> FALSE, http |-> http, status |-> error]

(***************************************************************************)
(* Request slots.                                                          *)
(***************************************************************************)
Slots == {1, 2}

IdleReq ==
    [op |-> "idle", pc |-> "idle", email |-> <<>>, rawToken |-> NoToken,
     nowIso |-> 0, tokenId |-> 0, subscriberId |-> 0, tokUsed |-> Null,
     tokExpires |-> Null, action |-> "none", existed |-> "none",
     emailRaw |-> <<>>,
     unsubRaw |-> NoToken, latestUrl |-> 0,
     activated |-> FALSE, activeCount |-> 0, resp |-> NoResp]

\* The handler returns; its frame stays inspectable until the response has
\* been delivered (ReqClose).
Return(r, resp) == [r EXCEPT !.pc = "done", !.resp = resp]

Free(p) == req[p].pc = "idle"
At(p, op, pc) == req[p].op = op /\ req[p].pc = pc

\* A store or Mailer call may fail while the budget lasts.
CanFail == faults < MaxFaults
Fail == faults' = faults + 1

storeVars == <<subscribers, tokens, newsletters, activations>>
clockVars == <<now, ticks>>

(***************************************************************************)
(* POST /api/subscribe  (src/portfolio/src/app/api/subscribe/route.ts)     *)
(***************************************************************************)
SubscribeStart(p, emailRaw) ==
    /\ Free(p)
    /\ LET email == NormalizeEmail(emailRaw)
           r == [IdleReq EXCEPT !.op = "subscribe", !.email = email,
                                !.emailRaw = emailRaw]
       IN req' = [req EXCEPT ![p] =
                    IF ~isValidEmail(email)
                    THEN Return(r, Err(400, "Invalid email address."))
                    ELSE [r EXCEPT !.pc = "find"]]
    /\ UNCHANGED <<storeVars, clockVars, nextRaw, env, blobs, job, outbox, faults>>

SubscribeFindNoStatus(p) ==
    /\ At(p, "subscribe", "find")
    /\ LET r == req[p]
           ids == SubscriberIdsByEmail(r.email)
       IN \/ /\ CanFail /\ Fail
             /\ req' = [req EXCEPT ![p] = Return(r, Err(500, "store error"))]
          \/ /\ UNCHANGED faults
             /\ IF ids = {}
                THEN req' = [req EXCEPT ![p] = [r EXCEPT !.pc = "insert"]]
                ELSE LET id == CHOOSE i \in ids : TRUE
                         st == subscribers[id].status
                         r2 == [r EXCEPT !.subscriberId = id, !.existed = st]
                     IN req' = [req EXCEPT ![p] = Return(r2, Ok(st))]
    /\ UNCHANGED <<storeVars, clockVars, nextRaw, env, blobs, job, outbox>>

SubscribeFind(p) ==
    /\ At(p, "subscribe", "find")
    /\ LET r == req[p]
           ids == SubscriberIdsByEmail(r.email)
       IN \/ /\ CanFail /\ Fail
             /\ req' = [req EXCEPT ![p] = Return(r, Err(500, "store error"))]
          \/ /\ UNCHANGED faults
             /\ IF ids = {}
                THEN req' = [req EXCEPT ![p] = [r EXCEPT !.pc = "insert"]]
                ELSE LET id == CHOOSE i \in ids : TRUE
                         st == subscribers[id].status
                         r2 == [r EXCEPT !.subscriberId = id, !.existed = st]
                     IN req' = [req EXCEPT ![p] =
                          IF st = "unsubscribed"
                          THEN Return(r2, Err(400, "That email is unsubscribed."))
                          ELSE Return(r2, Ok(st))]
    /\ UNCHANGED <<storeVars, clockVars, nextRaw, env, blobs, job, outbox>>

SubscribeInsert(p) ==
    /\ At(p, "subscribe", "insert")
    /\ LET r == req[p]
       IN \/ /\ CanFail /\ Fail
             /\ req' = [req EXCEPT ![p] = Return(r, Err(500, "store error"))]
             /\ UNCHANGED subscribers
          \/ /\ UNCHANGED faults
             /\ IF SubscriberInsertAllowed(r.email)
                THEN /\ subscribers' = Append(subscribers, SubscriberRow(r.email, "pending"))
                     /\ req' = [req EXCEPT ![p] = Return(r, Ok("pending"))]
                ELSE /\ UNCHANGED subscribers
                     /\ req' = [req EXCEPT ![p] = Return(r, Err(500, "duplicate key"))]
    /\ UNCHANGED <<tokens, newsletters, activations, clockVars, nextRaw, env,
                   blobs, job, outbox>>

(***************************************************************************)
(* Subscribe with confirmation: POST, src/portfolio/src/app/about/         *)
(* Reveal.tsx lines 278-389.                                               *)
(***************************************************************************)
SubscribeConfirmStart(p, emailRaw) ==
    /\ Free(p)
    /\ LET email == NormalizeEmail(emailRaw)
           r == [IdleReq EXCEPT !.op = "subscribeConfirm", !.email = email,
                                !.emailRaw = emailRaw]
       IN req' = [req EXCEPT ![p] =
                    IF ~isValidEmail(email)
                    THEN Return(r, Err(400, "Invalid email address."))
                    ELSE [r EXCEPT !.pc = "find"]]
    /\ UNCHANGED <<storeVars, clockVars, nextRaw, env, blobs, job, outbox, faults>>

SubscribeConfirmFind(p) ==
    /\ At(p, "subscribeConfirm", "find")
    /\ LET r == req[p]
           ids == SubscriberIdsByEmail(r.email)
       IN \/ /\ CanFail /\ Fail
             /\ req' = [req EXCEPT ![p] = Return(r, Err(500, "store error"))]
          \/ /\ UNCHANGED faults
             /\ IF ids = {}
                THEN req' = [req EXCEPT ![p] = [r EXCEPT !.pc = "insert"]]
                ELSE LET id == CHOOSE i \in ids : TRUE
                         st == subscribers[id].status
                         r2 == [r EXCEPT !.subscriberId = id, !.existed = st]
                     IN req' = [req EXCEPT ![p] =
                          CASE st = "unsubscribed" ->
                                 Return(r2, Err(400, "That email is unsubscribed."))
                            [] st = "active" -> Return(r2, Ok("active"))
                            [] OTHER -> [r2 EXCEPT !.pc = "token"]]
    /\ UNCHANGED <<storeVars, clockVars, nextRaw, env, blobs, job, outbox>>

SubscribeConfirmInsert(p) ==
    /\ At(p, "subscribeConfirm", "insert")
    /\ LET r == req[p]
       IN \/ /\ CanFail /\ Fail
             /\ req' = [req EXCEPT ![p] = Return(r, Err(500, "store error"))]
             /\ UNCHANGED subscribers
          \/ /\ UNCHANGED faults
             /\ IF SubscriberInsertAllowed(r.email)
                THEN /\ subscribers' = Append(subscribers, SubscriberRow(r.email, "pending"))
                     /\ req' = [req EXCEPT ![p] =
                          [r EXCEPT !.subscriberId = Len(subscribers) + 1,
                                    !.pc = "token"]]
                ELSE /\ UNCHANGED subscribers
                     /\ req' = [req EXCEPT ![p] = Return(r, Err(500, "duplicate key"))]
    /\ UNCHANGED <<tokens, newsletters, activations, clockVars, nextRaw, env,
                   blobs, job, outbox>>

\* Insert the confirm token, then read NEXT_PUBLIC_SITE_URL.
SubscribeConfirmToken(p) ==
    /\ At(p, "subscribeConfirm", "token")
    /\ LET r == req[p]
       IN \/ /\ CanFail /\ Fail
             /\ req' = [req EXCEPT ![p] = Return(r, Err(500, "store error"))]
             /\ UNCHANGED <<tokens, activations, nextRaw>>
          \/ /\ nextRaw <= MaxTokens
             /\ UNCHANGED faults
             /\ nextRaw' = nextRaw + 1
             /\ tokens' = Append(tokens, TokenRow(r.subscriberId, "confirm",
                                   sha256Hex(nextRaw), now + ConfirmTtl))
             /\ activations' = Append(activations, 0)
             /\ LET r2 == [r EXCEPT !.rawToken = nextRaw,
                                    !.tokenId = Len(tokens) + 1]
                IN req' = [req EXCEPT ![p] =
                     IF ~env.siteUrl
                     THEN Return(r2, Err(500, "Missing NEXT_PUBLIC_SITE_URL env var."))
                     ELSE [r2 EXCEPT !.pc = "email"]]
    /\ UNCHANGED <<subscribers, newsletters, clockVars, env, blobs, job, outbox>>

SubscribeConfirmEmail(p) ==
    /\ At(p, "subscribeConfirm", "email")
    /\ LET r == req[p]
       IN \/ /\ CanFail /\ Fail
             /\ req' = [req EXCEPT ![p] = Return(r, Err(500, "mail error"))]
             /\ UNCHANGED outbox
          \/ /\ UNCHANGED faults
             /\ outbox' = outbox \cup
                  {[to |-> r.email, kind |-> "confirm", confirmRaw |-> r.rawToken,
                    unsubRaw |-> NoToken, latest |-> 0]}
             /\ req' = [req EXCEPT ![p] = Return(r, Ok("pending"))]
    /\ UNCHANGED <<storeVars, clockVars, nextRaw, env, blobs, job>>

(***************************************************************************)
(* POST /api/newsletter/confirm                                            *)
(* (src/portfolio/src/app/api/newsletter/confirm/route.ts)                 *)
(* and the server-rendered page src/portfolio/src/app/newsletter/confirm/  *)
(* page.tsx (op "confirmPage"), which runs the same first three store      *)
(* calls and then renders.                                                 *)
(***************************************************************************)
\* Raw values of tokens issued, and the storage path of the issue uploaded,
\* before the behaviour starts.
PreRaws == 51..56
PrePath == 50

RawInputs ==
    {NoToken, Forged} \cup (1..(nextRaw - 1))
      \cup {r \in PreRaws : \E i \in DOMAIN tokens : tokens[i].token_hash = sha256Hex(r)}

ConfirmOps == {"confirm", "confirmPage"}

ConfirmStart(p, op, rawToken) ==
    /\ Free(p)
    /\ op \in ConfirmOps
    /\ LET r == [IdleReq EXCEPT !.op = op, !.rawToken = rawToken, !.nowIso = now]
       IN req' = [req EXCEPT ![p] =
                    CASE rawToken = NoToken -> Return(r, Err(400, "Missing token."))
                      [] op = "confirm" /\ ~env.siteUrl ->
                           Return(r, Err(500, "Missing NEXT_PUBLIC_SITE_URL env var."))
                      [] op = "confirm" /\ ~env.resendFrom ->
                           Return(r, Err(500, "Missing RESEND_FROM env var."))
                      [] OTHER -> [r EXCEPT !.pc = "findToken"]]
    /\ UNCHANGED <<storeVars, clockVars, nextRaw, env, blobs, job, outbox, faults>>

ConfirmFindToken(p) ==
    /\ req[p].op \in ConfirmOps /\ req[p].pc = "findToken"
    /\ LET r == req[p]
           ids == TokenIdsByHash("confirm", sha256Hex(r.rawToken))
       IN \/ /\ CanFail /\ Fail
             /\ req' = [req EXCEPT ![p] = Return(r, Err(500, "store error"))]
          \/ /\ UNCHANGED faults
             /\ IF ids = {}
                THEN req' = [req EXCEPT ![p] = Return(r, Err(400, "Invalid link."))]
                ELSE LET id == CHOOSE i \in ids : TRUE
                         row == tokens[id]
                         r2 == [r EXCEPT !.tokenId = id,
                                         !.subscriberId = row.subscriber_id,
                                         !.tokUsed = row.used_at,
                                         !.tokExpires = row.expires_at]
                     IN req' = [req EXCEPT ![p] =
                          CASE row.used_at # Null -> Return(r2, Ok("already_confirmed"))
                            [] IsExpired(row.expires_at, r.nowIso) ->
                                 Return(r2, Err(400, "Link expired."))
                            [] OTHER -> [r2 EXCEPT !.pc = "activate"]]
    /\ UNCHANGED <<storeVars, clockVars, nextRaw, env, blobs, job, outbox>>

\* .update({ status: "active", confirmed_at: nowIso }).eq("id", tokenRow.subscriber_id)
ConfirmActivate(p) ==
    /\ req[p].op \in ConfirmOps /\ req[p].pc = "activate"
    /\ LET r == req[p]
       IN \/ /\ CanFail /\ Fail
             /\ req' = [req EXCEPT ![p] = Return(r, Err(500, "store error"))]
             /\ UNCHANGED <<subscribers, activations>>
          \/ /\ UNCHANGED faults
             /\ subscribers' = [subscribers EXCEPT ![r.subscriberId] =
                                  [@ EXCEPT !.status = "active",
                                            !.confirmed_at = r.nowIso]]
             /\ activations' = IF r.op = "confirm"
                               THEN [activations EXCEPT ![r.tokenId] = @ + 1]
                               ELSE activations
             /\ req' = [req EXCEPT ![p] = [r EXCEPT !.activated = TRUE,
                                                    !.pc = "markUsed"]]
    /\ UNCHANGED <<tokens, newsletters, clockVars, nextRaw, env, blobs, job, outbox>>

\* .update({ used_at: nowIso }).eq("id", tokenRow.id)
ConfirmMarkUsed(p) ==
    /\ req[p].op \in ConfirmOps /\ req[p].pc = "markUsed"
    /\ LET r == req[p]
       IN \/ /\ CanFail /\ Fail
             /\ UNCHANGED tokens
             /\ req' = [req EXCEPT ![p] =
                          IF r.op = "confirm"
                          THEN Return(r, Ok("confirmed_with_warning"))
                          ELSE Return(r, Ok("confirmed"))]
          \/ /\ UNCHANGED faults
             /\ tokens' = [tokens EXCEPT ![r.tokenId] = [@ EXCEPT !.used_at = r.nowIso]]
             /\ req' = [req EXCEPT ![p] =
                          IF r.op = "confirm"
                          THEN [r EXCEPT !.pc = "loadSub"]
                          ELSE Return(r, Ok("confirmed"))]
    /\ UNCHANGED <<subscribers, newsletters, activations, clockVars, nextRaw,
                   env, blobs, job, outbox>>

\* .select("email, welcome_sent_at").eq("id", tokenRow.subscriber_id).single()
ConfirmLoadSub(p) ==
    /\ At(p, "confirm", "loadSub")
    /\ LET r == req[p]
       IN \/ /\ CanFail /\ Fail
             /\ req' = [req EXCEPT ![p] = Return(r, Ok("confirmed_no_welcome"))]
          \/ /\ UNCHANGED faults
             /\ req' = [req EXCEPT ![p] =
                          IF subscribers[r.subscriberId].welcome_sent_at # Null
                          THEN Return(r, Ok("confirmed"))
                          ELSE [r EXCEPT !.email = subscribers[r.subscriberId].email,
                                         !.pc = "mintUnsub"]]
    /\ UNCHANGED <<storeVars, clockVars, nextRaw, env, blobs, job, outbox>>

\* createUnsubscribeUrl: a failed insert throws, and POST's catch answers 500.
ConfirmMintUnsub(p) ==
    /\ At(p, "confirm", "mintUnsub")
    /\ LET r == req[p]
       IN \/ /\ CanFail /\ Fail
             /\ req' = [req EXCEPT ![p] = Return(r, Err(500, "store error"))]
             /\ UNCHANGED <<tokens, activations, nextRaw>>
          \/ /\ nextRaw <= MaxTokens
             /\ UNCHANGED faults
             /\ nextRaw' = nextRaw + 1
             /\ tokens' = Append(tokens, TokenRow(r.subscriberId, "unsubscribe",
                                   sha256Hex(nextRaw), now + UnsubTtl))
             /\ activations' = Append(activations, 0)
             /\ req' = [req EXCEPT ![p] = [r EXCEPT !.unsubRaw = nextRaw,
                                                    !.pc = "welcome"]]
    /\ UNCHANGED <<subscribers, newsletters, clockVars, env, blobs, job, outbox>>

\* .from("newsletters").select(...).eq("is_latest", true).maybeSingle(), then
\* storage.createSignedUrl(latest.storage_path, 7 days), then
\* resend.emails.send(welcome).  The two lookups write nothing and their
\* failure (for maybeSingle, also several matching rows) only leaves the
\* mail without a download link, so they are one step with the send.
LatestIds == {i \in DOMAIN newsletters : newsletters[i].is_latest}

ConfirmWelcome(p) ==
    /\ At(p, "confirm", "welcome")
    /\ LET r == req[p]
           latest == IF Cardinality(LatestIds) = 1
                     THEN newsletters[CHOOSE i \in LatestIds : TRUE].storage_path
                     ELSE 0
       IN \/ /\ CanFail /\ Fail
             /\ UNCHANGED outbox
             /\ req' = [req EXCEPT ![p] = Return(r, Ok("confirmed"))]
          \/ /\ UNCHANGED faults
             /\ \E latestUrl \in {0, latest} :
                  /\ outbox' = outbox \cup
                       {[to |-> r.email, kind |-> "welcome", confirmRaw |-> NoToken,
                         unsubRaw |-> r.unsubRaw, latest |-> latestUrl]}
                  /\ req' = [req EXCEPT ![p] = [r EXCEPT !.latestUrl = latestUrl,
                                                         !.pc = "stampWelcome"]]
    /\ UNCHANGED <<storeVars, clockVars, nextRaw, env, blobs, job>>

\* .update({ welcome_sent_at: nowIso }); its error is not looked at.
ConfirmStampWelcome(p) ==
    /\ At(p, "confirm", "stampWelcome")
    /\ LET r == req[p]
       IN /\ \/ /\ CanFail /\ Fail
                /\ UNCHANGED subscribers
             \/ /\ UNCHANGED faults
                /\ subscribers' = [subscribers EXCEPT ![r.subscriberId] =
                                     [@ EXCEPT !.welcome_sent_at = r.nowIso]]
          /\ req' = [req EXCEPT ![p] = Return(r, Ok("confirmed"))]
    /\ UNCHANGED <<tokens, newsletters, activations, clockVars, nextRaw, env,
                   blobs, job, outbox>>

(***************************************************************************)
(* POST /api/newsletter/unsubscribe                                        *)
(* (src/portfolio/src/app/api/newsletter/unsubscribe/route.ts)             *)
(***************************************************************************)
UnsubscribeStart(p, rawToken) ==
    /\ Free(p)
    /\ LET r == [IdleReq EXCEPT !.op = "unsubscribe", !.rawToken = rawToken,
                                !.nowIso = now]
       IN req' = [req EXCEPT ![p] =
                    IF rawToken = NoToken
                    THEN Return(r, Err(400, "Missing token."))
                    ELSE [r EXCEPT !.pc = "findToken"]]
    /\ UNCHANGED <<storeVars, clockVars, nextRaw, env, blobs, job, outbox, faults>>

UnsubscribeFindToken(p) ==
    /\ At(p, "unsubscribe", "findToken")
    /\ LET r == req[p]
           ids == TokenIdsByHash("unsubscribe", sha256Hex(r.rawToken))
       IN \/ /\ CanFail /\ Fail
             /\ req' = [req EXCEPT ![p] = Return(r, Err(500, "store error"))]
          \/ /\ UNCHANGED faults
             /\ IF ids = {}
                THEN req' = [req EXCEPT ![p] = Return(r, Err(400, "Invalid link."))]
                ELSE LET id == CHOOSE i \in ids : TRUE
                         row == tokens[id]
                         r2 == [r EXCEPT !.tokenId = id,
                                         !.subscriberId = row.subscriber_id,
                                         !.tokUsed = row.used_at,
                                         !.tokExpires = row.expires_at]
                     IN req' = [req EXCEPT ![p] =
                          IF IsExpired(row.expires_at, r.nowIso)
                          THEN Return(r2, Err(400, "Link expired."))
                          ELSE [r2 EXCEPT !.pc = "readSub"]]
    /\ UNCHANGED <<storeVars, clockVars, nextRaw, env, blobs, job, outbox>>

\* const action = currentStatus === "pending" ? "canceled" : "unsubscribed"
UnsubActionFlat(currentStatus) == "unsubscribed"
UnsubAction(currentStatus) ==
    IF currentStatus = "pending" THEN "canceled" ELSE "unsubscribed"

\* Read the status, then look at tokenRow.used_at, then classify.
UnsubscribeReadSub(p) ==
    /\ At(p, "unsubscribe", "readSub")
    /\ LET r == req[p]
       IN \/ /\ CanFail /\ Fail
             /\ req' = [req EXCEPT ![p] = Return(r, Err(500, "store error"))]
          \/ /\ UNCHANGED faults
             /\ LET currentStatus == subscribers[r.subscriberId].status
                    r2 == [r EXCEPT !.existed = currentStatus]
                IN req' = [req EXCEPT ![p] =
                     IF r.tokUsed # Null
                     THEN Return(r2, Ok("already_done"))
                     ELSE [r2 EXCEPT !.action = UnsubAction(currentStatus),
                                     !.pc = "update"]]
    /\ UNCHANGED <<storeVars, clockVars, nextRaw, env, blobs, job, outbox>>

UnsubscribeUpdateAll(p) ==
    /\ At(p, "unsubscribe", "update")
    /\ LET r == req[p]
       IN \/ /\ CanFail /\ Fail
             /\ req' = [req EXCEPT ![p] = Return(r, Err(500, "store error"))]
             /\ UNCHANGED <<subscribers, activations>>
          \/ /\ UNCHANGED faults
             /\ subscribers' = [i \in DOMAIN subscribers |->
                                  [subscribers[i] EXCEPT !.status = "unsubscribed"]]
             /\ activations' = [activations EXCEPT ![r.tokenId] = @ + 1]
             /\ req' = [req EXCEPT ![p] = [r EXCEPT !.pc = "markUsed"]]
    /\ UNCHANGED <<tokens, newsletters, clockVars, nextRaw, env,
                   blobs, job, outbox>>

\* .update({ status: "unsubscribed" }).eq("id", tokenRow.subscriber_id)
UnsubscribeUpdate(p) ==
    /\ At(p, "unsubscribe", "update")
    /\ LET r == req[p]
       IN \/ /\ CanFail /\ Fail
             /\ req' = [req EXCEPT ![p] = Return(r, Err(500, "store error"))]
             /\ UNCHANGED <<subscribers, activations>>
          \/ /\ UNCHANGED faults
             /\ subscribers' = [subscribers EXCEPT ![r.subscriberId] =
                                  [@ EXCEPT !.status = "unsubscribed"]]
             /\ activations' = [activations EXCEPT ![r.tokenId] = @ + 1]
             /\ req' = [req EXCEPT ![p] = [r EXCEPT !.pc = "markUsed"]]
    /\ UNCHANGED <<tokens, newsletters, clockVars, nextRaw, env,
                   blobs, job, outbox>>

UnsubscribeMarkUsed(p) ==
    /\ At(p, "unsubscribe", "markUsed")
    /\ LET r == req[p]
       IN /\ \/ /\ CanFail /\ Fail
                /\ UNCHANGED tokens
             \/ /\ UNCHANGED faults
                /\ tokens' = [tokens EXCEPT ![r.tokenId] =
                                [@ EXCEPT !.used_at = r.nowIso]]
          /\ req' = [req EXCEPT ![p] = Return(r, Ok(r.action))]
    /\ UNCHANGED <<subscribers, newsletters, activations, clockVars, nextRaw,
                   env, blobs, job, outbox>>

(***************************************************************************)
(* The clock.                                                              *)
(***************************************************************************)
Tick ==
    /\ ticks < MaxTicks
    /\ ticks' = ticks + 1
    /\ \E d \in {ConfirmTtl, UnsubTtl} : now' = now + d
    /\ UNCHANGED <<storeVars, nextRaw, env, blobs, req, job, outbox, faults>>

(***************************************************************************)
(* POST /api/newsletter/send-upload                                        *)
(* (src/portfolio/src/app/api/newsletter/send-upload/route.ts)             *)
(***************************************************************************)
Jobs == {1, 2}

maxBytes == 10485760          \* 10 * 1024 * 1024
ThrottleMs == 600
BackoffBaseMs == 700

PdfExt  == <<"p", "d", "f">>
DocxExt == <<"d", "o", "c", "x">>
DefaultFilename == <<"n", "e", "w", "s", "l", "e", "t", "t", "e", "r">>

\* filename.toLowerCase().split(".").pop()
Ext(filename) ==
    LET low == ToLowerCase(filename)
        dots == {i \in 1..Len(low) : low[i] = "."}
        last == IF dots = {} THEN 0 ELSE CHOOSE i \in dots : \A k \in dots : k <= i
    IN SubSeq(low, last + 1, Len(low))

NoFile == [name |-> <<>>, size |-> -1]          \* form.get("file") is not a File

SendForms ==
    LET f(sub, te, nm, sz) ==
          [subject |-> sub, testEmail |-> te, file |-> [name |-> nm, size |-> sz]]
        s1 == <<"s">>
        pdf == <<"n", ".", "P", "D", "F">>
    IN { f(s1, <<>>, pdf, maxBytes),
         f(s1, <<"A", "@", "B", ".", "c">>, <<"n", ".", "d", "o", "c", "x">>, 1),
         f(s1, <<"d", "@", "b", ".", "c", " ">>, pdf, 1),
         f(s1, <<"z", "@", "b", ".", "c">>, pdf, 1),
         f(<<" ">>, <<>>, pdf, 1),
         f(s1, <<>>, <<"n", ".", "p", "d", "f", ".", "c">>, 1),
         f(s1, <<>>, <<>>, 1),
         f(s1, <<>>, pdf, maxBytes + 1),
         [subject |-> s1, testEmail |-> <<>>, file |-> NoFile] }

(***************************************************************************)
(* What resend.emails.send may answer: no error, or one of these errors.   *)
(* rate tells whether the provider refused the call for its rate limit;    *)
(* the handler sees kind and text only.                                    *)
(***************************************************************************)
MailerErrors ==
    LET e(kind, rate, text) == [kind |-> kind, rate |-> rate, text |-> text]
    IN { e("string",  TRUE,  <<"T", "o", "o", " ", "M", "a", "n", "y">>),
         e("message", TRUE,  <<"4", "2", "9">>),
         e("message", TRUE,  <<"R", "a", "t", "e", " ", "l", "i", "m", "i", "t">>),
         e("message", TRUE,  <<"r", "a", "t", "e", "_", "l", "i", "m", "i", "t",
                               "_", "e", "x", "c", "e", "e", "d", "e", "d">>),
         e("json",    TRUE,  <<"{", "4", "2", "9", "}">>),
         e("message", FALSE, <<"b", "a", "d">>) }

NoErr == [kind |-> "none", rate |-> FALSE, text |-> <<>>]
UnknownError == <<"U", "n", "k", "n", "o", "w", "n", " ", "e", "r", "r", "o", "r">>
StoreErrorMsg == <<"d", "b">>

\* string -> itself; err.message -> String(err.message); else JSON.stringify(err)
stringifyResendError(err) ==
    IF err.kind = "none" THEN UnknownError ELSE err.text

is429Always(err) == TRUE
is429(err) ==
    LET msg == ToLowerCase(stringifyResendError(err))
    IN \/ Includes(msg, <<"4", "2", "9">>)
       \/ Includes(msg, <<"t", "o", "o", " ", "m", "a", "n", "y">>)
       \/ Includes(msg, <<"r", "a", "t", "e", " ", "l", "i", "m", "i", "t">>)
       \/ Includes(msg, <<"r", "a", "t", "e", "_", "l", "i", "m", "i", "t",
                          "_", "e", "x", "c", "e", "e", "d", "e", "d">>)

RECURSIVE Pow2(_)
Pow2(n) == IF n = 0 THEN 1 ELSE 2 * Pow2(n - 1)

\* 700 * Math.pow(2, attempt - 1)
BackoffMs(attempt) == BackoffBaseMs * Pow2(attempt - 1)

NoJobResp == [ok |-> FALSE, http |-> 0, status |-> "none", sent |-> 0,
              failedCount |-> 0, failed |-> <<>>]
JobErr(http, error) == [NoJobResp EXCEPT !.http = http, !.status = error]
JobOk(sent, failed) ==
    [ok |-> TRUE, http |-> 200, status |-> "ok", sent |-> sent,
     failedCount |-> Len(failed), failed |-> failed]

IdleJob ==
    [pc |-> "idle", testEmail |-> <<>>, storagePath |-> 0,
     recipients |-> <<>>, idx |-> 0, sent |-> 0, failed |-> <<>>,
     attempt |-> 0, lastErr |-> NoErr, unsubRaw |-> NoToken,
     trace |-> <<>>,      \* the Mailer's answers for this recipient: "ok",
                          \* "rate" (refused for the rate limit), "other"
     waits |-> <<>>,      \* sleeps taken while processing this recipient
     log |-> <<>>,        \* per processed recipient: id and outcome
     resp |-> NoJobResp]

JobReturn(b, resp) == [b EXCEPT !.pc = "done", !.resp = resp]

JobFree(j) == job[j].pc = "idle"

SendUploadStart(j, form) ==
    /\ JobFree(j)
    /\ LET subject == Trim(form.subject)
           testEmail == ToLowerCase(Trim(form.testEmail))
           filename == IF form.file.name = <<>> THEN DefaultFilename
                                                ELSE form.file.name
           ext == Ext(filename)
           b == [IdleJob EXCEPT !.testEmail = testEmail]
       IN job' = [job EXCEPT ![j] =
            CASE ~env.siteUrl ->
                   JobReturn(b, JobErr(500, "Missing NEXT_PUBLIC_SITE_URL env var."))
              [] ~env.resendFrom ->
                   JobReturn(b, JobErr(500, "Missing RESEND_FROM env var."))
              [] subject = <<>> -> JobReturn(b, JobErr(400, "Missing subject."))
              [] form.file = NoFile -> JobReturn(b, JobErr(400, "Missing file upload."))
              [] ext # PdfExt /\ ext # DocxExt ->
                   JobReturn(b, JobErr(400, "Only .pdf or .docx files are allowed."))
              [] form.file.size > maxBytes ->
                   JobReturn(b, JobErr(400, "File too large (max 10MB)."))
              [] OTHER -> [b EXCEPT !.pc = "upload"]]
    /\ UNCHANGED <<storeVars, clockVars, nextRaw, env, blobs, req, outbox, faults>>

\* storage.upload(storagePath, buf, ...): storagePath is fresh.
SendUploadUpload(j) ==
    /\ job[j].pc = "upload"
    /\ LET b == job[j]
       IN \/ /\ CanFail /\ Fail
             /\ job' = [job EXCEPT ![j] = JobReturn(b, JobErr(500, "upload error"))]
             /\ UNCHANGED blobs
          \/ /\ UNCHANGED faults
             /\ Cardinality(blobs \ {PrePath}) < MaxIssues
             /\ blobs' = blobs \cup {Cardinality(blobs \ {PrePath}) + 1}
             /\ job' = [job EXCEPT ![j] =
                          [b EXCEPT !.storagePath = Cardinality(blobs \ {PrePath}) + 1,
                                    !.pc = "recipients"]]
    /\ UNCHANGED <<storeVars, clockVars, nextRaw, env, req, outbox>>

AllIds == DOMAIN subscribers
ActiveIds == {i \in DOMAIN subscribers : subscribers[i].status = "active"}

\* `Test email is not active (status=${data.status}). Subscribe + confirm first.`
NotActiveError(status) ==
    "Test email is not active (status=" \o status \o "). Subscribe + confirm first."

RECURSIVE SortedSeq(_)
SortedSeq(S) ==
    IF S = {} THEN <<>>
    ELSE LET m == CHOOSE x \in S : \A y \in S : x <= y
         IN <<m>> \o SortedSeq(S \ {m})

SendUploadRecipients(j) ==
    /\ job[j].pc = "recipients"
    /\ LET b == job[j]
           ids == SubscriberIdsByEmail(b.testEmail)
           begin(rs) == IF rs = <<>>
                        THEN JobReturn([b EXCEPT !.recipients = rs], JobOk(0, <<>>))
                        ELSE [b EXCEPT !.recipients = rs, !.idx = 1, !.pc = "mint"]
       IN \/ /\ CanFail /\ Fail
             /\ job' = [job EXCEPT ![j] = JobReturn(b, JobErr(500, "store error"))]
          \/ /\ UNCHANGED faults
             /\ job' = [job EXCEPT ![j] =
                  IF b.testEmail # <<>>
                  THEN IF ids = {}
                       THEN JobReturn(b, JobErr(400, "Test email not found in DB."))
                       ELSE LET id == CHOOSE i \in ids : TRUE
                            IN IF subscribers[id].status # "active"
                               THEN JobReturn(b, JobErr(400,
                                        NotActiveError(subscribers[id].status)))
                               ELSE begin(<<id>>)
                  ELSE begin(SortedSeq(ActiveIds))]
    /\ UNCHANGED <<storeVars, clockVars, nextRaw, env, blobs, req, outbox>>

\* The loop body for recipients[idx] has ended with the given counters;
\* go to the next recipient or, after the last one, to the issue bookkeeping.
AfterRecipientAbort(b, outcome, sent, failed) ==
    LET b2 == [b EXCEPT !.sent = sent, !.failed = failed,
                        !.log = Append(b.log,
                                  [id |-> b.recipients[b.idx], outcome |-> outcome,
                                   calls |-> Len(b.trace)])]
    IN IF outcome # "sent"
       THEN JobReturn(b2, JobOk(sent, failed))
       ELSE IF b.idx < Len(b.recipients)
            THEN [b2 EXCEPT !.idx = b.idx + 1, !.pc = "mint"]
            ELSE [b2 EXCEPT !.idx = b.idx + 1, !.pc = "clear"]
AfterRecipientAlwaysLatest(b, outcome, sent, failed) ==
    LET b2 == [b EXCEPT !.sent = sent, !.failed = failed,
                        !.log = Append(b.log,
                                  [id |-> b.recipients[b.idx], outcome |-> outcome,
                                   calls |-> Len(b.trace)])]
    IN IF b.idx < Len(b.recipients)
       THEN [b2 EXCEPT !.idx = b.idx + 1, !.pc = "mint"]
       ELSE [b2 EXCEPT !.idx = b.idx + 1, !.pc = "clear"]
AfterRecipient(b, outcome, sent, failed) ==
    LET b2 == [b EXCEPT !.sent = sent, !.failed = failed,
                        !.log = Append(b.log,
                                  [id |-> b.recipients[b.idx], outcome |-> outcome,
                                   calls |-> Len(b.trace)])]
    IN IF b.idx < Len(b.recipients)
       THEN [b2 EXCEPT !.idx = b.idx + 1, !.pc = "mint"]
       ELSE IF sent > 0
            THEN [b2 EXCEPT !.idx = b.idx + 1, !.pc = "clear"]
            ELSE JobReturn(b2, JobOk(sent, failed))

RecipientEmail(b) == subscribers[b.recipients[b.idx]].email

\* createUnsubscribeUrl(r.id, baseUrl); a failed insert throws into the
\* loop's catch.
SendUploadMint(j) ==
    /\ job[j].pc = "mint"
    /\ LET b == [job[j] EXCEPT !.trace = <<>>, !.waits = <<>>, !.attempt = 0,
                               !.lastErr = NoErr]
       IN \/ /\ CanFail /\ Fail
             /\ job' = [job EXCEPT ![j] =
                  AfterRecipient(b, "mintFailed", b.sent,
                     Append(b.failed, [email |-> RecipientEmail(b),
                                       error |-> StoreErrorMsg]))]
             /\ UNCHANGED <<tokens, activations, nextRaw>>
          \/ /\ nextRaw <= MaxTokens
             /\ UNCHANGED faults
             /\ nextRaw' = nextRaw + 1
             /\ tokens' = Append(tokens, TokenRow(b.recipients[b.idx], "unsubscribe",
                                   sha256Hex(nextRaw), now + UnsubTtl))
             /\ activations' = Append(activations, 0)
             /\ job' = [job EXCEPT ![j] = [b EXCEPT !.unsubRaw = nextRaw,
                                                    !.attempt = 1, !.pc = "send"]]
    /\ UNCHANGED <<subscribers, newsletters, clockVars, env, blobs, req, outbox>>

\* resendSendWithRetry: one call of sendFn and the classification of its answer.
SendUploadAttempt(j) ==
    /\ job[j].pc = "send"
    /\ LET b == job[j]
       IN \E res \in {NoErr} \cup MailerErrors :
            IF res = NoErr
            THEN /\ outbox' = outbox \cup
                      {[to |-> RecipientEmail(b), kind |-> "issue",
                        confirmRaw |-> NoToken, unsubRaw |-> b.unsubRaw,
                        latest |-> b.storagePath]}
                 /\ job' = [job EXCEPT ![j] =
                      [b EXCEPT !.trace = Append(b.trace, "ok"), !.pc = "throttle"]]
            ELSE /\ UNCHANGED outbox
                 /\ LET b2 == [b EXCEPT !.lastErr = res,
                                 !.trace = Append(b.trace,
                                            IF res.rate THEN "rate" ELSE "other")]
                    IN job' = [job EXCEPT ![j] =
                         IF ~is429(res)
                         THEN AfterRecipient(b2, "failed", b.sent,
                                Append(b.failed, [email |-> RecipientEmail(b),
                                                  error |-> stringifyResendError(res)]))
                         ELSE [b2 EXCEPT !.pc = "backoff"]]
    /\ UNCHANGED <<storeVars, clockVars, nextRaw, env, blobs, req, faults>>

\* await sleep(700 * 2^(attempt-1)); attempt++; the loop test; after the loop
\* throw new Error(stringifyResendError(lastErr)).
SendUploadBackoff(j) ==
    /\ job[j].pc = "backoff"
    /\ LET b == job[j]
           b2 == [b EXCEPT !.waits = Append(b.waits, BackoffMs(b.attempt)),
                           !.attempt = b.attempt + 1]
       IN job' = [job EXCEPT ![j] =
            IF b2.attempt <= maxTries
            THEN [b2 EXCEPT !.pc = "send"]
            ELSE AfterRecipient(b2, "failed", b.sent,
                   Append(b.failed, [email |-> RecipientEmail(b),
                                     error |-> stringifyResendError(b.lastErr)]))]
    /\ UNCHANGED <<storeVars, clockVars, nextRaw, env, blobs, req, outbox, faults>>

\* await sleep(600); sent += 1
SendUploadThrottle(j) ==
    /\ job[j].pc = "throttle"
    /\ LET b == job[j]
           b2 == [b EXCEPT !.waits = Append(b.waits, ThrottleMs)]
       IN job' = [job EXCEPT ![j] = AfterRecipient(b2, "sent", b.sent + 1, b.failed)]
    /\ UNCHANGED <<storeVars, clockVars, nextRaw, env, blobs, req, outbox, faults>>

\* if (sent > 0): .update({ is_latest: false }).eq("is_latest", true)
SendUploadClear(j) ==
    /\ job[j].pc = "clear"
    /\ LET b == job[j]
       IN \/ /\ CanFail /\ Fail
             /\ job' = [job EXCEPT ![j] = JobReturn(b, JobErr(500, "store error"))]
             /\ UNCHANGED newsletters
          \/ /\ UNCHANGED faults
             /\ newsletters' = [i \in DOMAIN newsletters |->
                                  [newsletters[i] EXCEPT !.is_latest = FALSE]]
             /\ job' = [job EXCEPT ![j] = [b EXCEPT !.pc = "insertIssue"]]
    /\ UNCHANGED <<subscribers, tokens, activations, clockVars, nextRaw, env,
                   blobs, req, outbox>>

\* .insert({ subject, filename, storage_path, mime_type, is_latest: true })
SendUploadInsertIssue(j) ==
    /\ job[j].pc = "insertIssue"
    /\ LET b == job[j]
       IN \/ /\ CanFail /\ Fail
             /\ job' = [job EXCEPT ![j] = JobReturn(b, JobErr(500, "store error"))]
             /\ UNCHANGED newsletters
          \/ /\ UNCHANGED faults
             /\ newsletters' = Append(newsletters, IssueRow(b.storagePath))
             /\ job' = [job EXCEPT ![j] = JobReturn(b, JobOk(b.sent, b.failed))]
    /\ UNCHANGED <<subscribers, tokens, activations, clockVars, nextRaw, env,
                   blobs, req, outbox>>

(***************************************************************************)
(* POST /api/newsletter/send                                               *)
(* (src/portfolio/src/app/api/newsletter/send/route.ts): the bulk send of  *)
(* an html body, on the same job slots; its pcs carry the prefix "s".      *)
(***************************************************************************)
SendBodies ==
    LET f(sub, html, te) == [subject |-> sub, html |-> html, testEmail |-> te]
        s1 == <<"s">>
        h1 == <<"h">>
    IN { f(s1, h1, <<>>),
         f(s1, h1, <<" ", "A", "@", "B", ".", "c">>),
         f(s1, h1, <<"d", "@", "b", ".", "c">>),
         f(s1, h1, <<"z", "@", "b", ".", "c">>),
         f(<<" ">>, h1, <<>>),
         f(s1, <<>>, <<>>) }

ResendError == <<"R", "e", "s", "e", "n", "d", " ", "e", "r", "r", "o", "r">>

\* throw new Error(typeof error === "string" ? error : "Resend error")
SendErrorText(err) == IF err.kind = "string" THEN err.text ELSE ResendError

SendStart(j, body) ==
    /\ JobFree(j)
    /\ LET subject == Trim(body.subject)
           html == Trim(body.html)
           testEmail == ToLowerCase(Trim(body.testEmail))
           b == [IdleJob EXCEPT !.testEmail = testEmail]
       IN job' = [job EXCEPT ![j] =
            CASE subject = <<>> \/ html = <<>> ->
                   JobReturn(b, JobErr(400, "Missing subject or html."))
              [] ~env.siteUrl ->
                   JobReturn(b, JobErr(500, "Missing NEXT_PUBLIC_SITE_URL env var."))
              [] OTHER -> [b EXCEPT !.pc = "sRecipients"]]
    /\ UNCHANGED <<storeVars, clockVars, nextRaw, env, blobs, req, outbox, faults>>

\* With a testEmail the row is selected by email only: its status is not read.
SendRecipients(j) ==
    /\ job[j].pc = "sRecipients"
    /\ LET b == job[j]
           ids == SubscriberIdsByEmail(b.testEmail)
           begin(rs) == IF rs = <<>>
                        THEN JobReturn([b EXCEPT !.recipients = rs], JobOk(0, <<>>))
                        ELSE [b EXCEPT !.recipients = rs, !.idx = 1, !.pc = "sMint"]
       IN \/ /\ CanFail /\ Fail
             /\ job' = [job EXCEPT ![j] = JobReturn(b, JobErr(500, "store error"))]
          \/ /\ UNCHANGED faults
             /\ job' = [job EXCEPT ![j] =
                  IF b.testEmail # <<>>
                  THEN IF ids = {}
                       THEN JobReturn(b, JobErr(400, "Test email not found in DB."))
                       ELSE begin(<<CHOOSE i \in ids : TRUE>>)
                  ELSE begin(SortedSeq(ActiveIds))]
    /\ UNCHANGED <<storeVars, clockVars, nextRaw, env, blobs, req, outbox>>

\* The loop body for recipients[idx] has ended; the next recipient, or the
\* response after the last one.
SendAfterRecipient(b, outcome, sent, failed) ==
    LET b2 == [b EXCEPT !.sent = sent, !.failed = failed,
                        !.log = Append(b.log,
                                  [id |-> b.recipients[b.idx], outcome |-> outcome,
                                   calls |-> Len(b.trace)])]
    IN IF b.idx < Len(b.recipients)
       THEN [b2 EXCEPT !.idx = b.idx + 1, !.pc = "sMint"]
       ELSE JobReturn(b2, JobOk(sent, failed))

SendMint(j) ==
    /\ job[j].pc = "sMint"
    /\ LET b == [job[j] EXCEPT !.trace = <<>>, !.lastErr = NoErr]
       IN \/ /\ CanFail /\ Fail
             /\ job' = [job EXCEPT ![j] =
                  SendAfterRecipient(b, "mintFailed", b.sent,
                     Append(b.failed, [email |-> RecipientEmail(b),
                                       error |-> StoreErrorMsg]))]
             /\ UNCHANGED <<tokens, activations, nextRaw>>
          \/ /\ nextRaw <= MaxTokens
             /\ UNCHANGED faults
             /\ nextRaw' = nextRaw + 1
             /\ tokens' = Append(tokens, TokenRow(b.recipients[b.idx], "unsubscribe",
                                   sha256Hex(nextRaw), now + UnsubTtl))
             /\ activations' = Append(activations, 0)
             /\ job' = [job EXCEPT ![j] = [b EXCEPT !.unsubRaw = nextRaw,
                                                    !.pc = "sDeliver"]]
    /\ UNCHANGED <<subscribers, newsletters, clockVars, env, blobs, req, outbox>>

\* resend.emails.send, once; sent += 1 or the catch.
SendDeliver(j) ==
    /\ job[j].pc = "sDeliver"
    /\ LET b == job[j]
       IN \E res \in {NoErr} \cup MailerErrors :
            IF res = NoErr
            THEN /\ outbox' = outbox \cup
                      {[to |-> RecipientEmail(b), kind |-> "html",
                        confirmRaw |-> NoToken, unsubRaw |-> b.unsubRaw,
                        latest |-> 0]}
                 /\ job' = [job EXCEPT ![j] =
                      SendAfterRecipient([b EXCEPT !.trace = <<"ok">>], "sent",
                                         b.sent + 1, b.failed)]
            ELSE /\ UNCHANGED outbox
                 /\ job' = [job EXCEPT ![j] =
                      SendAfterRecipient(
                        [b EXCEPT !.lastErr = res,
                                  !.trace = <<IF res.rate THEN "rate" ELSE "other">>],
                        "failed", b.sent,
                        Append(b.failed, [email |-> RecipientEmail(b),
                                          error |-> SendErrorText(res)]))]
    /\ UNCHANGED <<storeVars, clockVars, nextRaw, env, blobs, req, faults>>

(***************************************************************************)
(* GET /api/newsletter/stats                                               *)
(* (src/portfolio/src/app/api/newsletter/stats/route.ts)                   *)
(***************************************************************************)
StatsGet(p) ==
    /\ Free(p)
    /\ LET r == [IdleReq EXCEPT !.op = "stats"]
       IN \/ /\ CanFail /\ Fail
             /\ req' = [req EXCEPT ![p] = Return(r, Err(500, "store error"))]
          \/ /\ UNCHANGED faults
             /\ req' = [req EXCEPT ![p] =
                  [Return(r, Ok("stats")) EXCEPT !.activeCount = Cardinality(ActiveIds)]]
    /\ UNCHANGED <<storeVars, clockVars, nextRaw, env, blobs, job, outbox>>

(***************************************************************************)
(* The response has been delivered and the handler's frame is gone.        *)
(***************************************************************************)
ReqClose(p) ==
    /\ req[p].pc = "done"
    /\ req' = [req EXCEPT ![p] = IdleReq]
    /\ UNCHANGED <<storeVars, clockVars, nextRaw, env, blobs, job, outbox, faults>>

JobClose(j) ==
    /\ job[j].pc = "done"
    /\ job' = [job EXCEPT ![j] = IdleJob]
    /\ UNCHANGED <<storeVars, clockVars, nextRaw, env, blobs, req, outbox, faults>>

(***************************************************************************)
(* Spec: the whole subsystem from an empty store, one request at a time    *)
(* (slot 1 of either kind).                                                *)
(***************************************************************************)
Init ==
    /\ subscribers = <<>>
    /\ tokens = <<>>
    /\ newsletters = <<>>
    /\ activations = <<>>
    /\ now = 1
    /\ ticks = 0
    /\ nextRaw = 1
    /\ env = [siteUrl |-> TRUE, resendFrom |-> TRUE]
    /\ req = [p \in Slots |-> IdleReq]
    /\ job = [j \in Jobs |-> IdleJob]
    /\ outbox = {}
    /\ blobs = {}
    /\ faults = 0

Quiet == /\ \A p \in Slots : req[p].pc = "idle"
         /\ \A j \in Jobs : job[j].pc = "idle"

Next ==
    \/ Quiet /\ \E e \in EmailInputs : SubscribeStart(1, e)
    \/ SubscribeFind(1)
    \/ SubscribeInsert(1)
    \/ Quiet /\ \E e \in EmailInputs : SubscribeConfirmStart(1, e)
    \/ SubscribeConfirmFind(1)
    \/ SubscribeConfirmInsert(1)
    \/ SubscribeConfirmToken(1)
    \/ SubscribeConfirmEmail(1)
    \/ Quiet /\ \E op \in ConfirmOps, raw \in RawInputs : ConfirmStart(1, op, raw)
    \/ ConfirmFindToken(1)
    \/ ConfirmActivate(1)
    \/ ConfirmMarkUsed(1)
    \/ ConfirmLoadSub(1)
    \/ ConfirmMintUnsub(1)
    \/ ConfirmWelcome(1)
    \/ ConfirmStampWelcome(1)
    \/ Quiet /\ \E raw \in RawInputs : UnsubscribeStart(1, raw)
    \/ UnsubscribeFindToken(1)
    \/ UnsubscribeReadSub(1)
    \/ UnsubscribeUpdate(1)
    \/ UnsubscribeMarkUsed(1)
    \/ Quiet /\ StatsGet(1)
    \/ ReqClose(1)
    \/ Quiet /\ \E form \in SendForms : SendUploadStart(1, form)
    \/ SendUploadUpload(1)
    \/ SendUploadRecipients(1)
    \/ SendUploadMint(1)
    \/ SendUploadAttempt(1)
    \/ SendUploadBackoff(1)
    \/ SendUploadThrottle(1)
    \/ SendUploadClear(1)
    \/ SendUploadInsertIssue(1)
    \/ JobClose(1)
    \/ Quiet /\ Tick

Spec == Init /\ [][Next]_vars

(***************************************************************************)
(* SpecSend: one send-upload request at a time against a store that        *)
(* already holds two subscribers.  Each starts in one of the three states  *)
(* the handlers above leave a subscriber in, together with the token rows  *)
(* that got it there: pending (subscribe with confirmation), active        *)
(* (confirm, welcome sent), unsubscribed (unsubscribe with the welcome     *)
(* mail's token).  A previous issue may exist once subscriber 1 has been   *)
(* active.  outbox and blobs hold what this behaviour adds.                *)
(***************************************************************************)
SeedEmails == << <<"a", "@", "b", ".", "c">>, <<"d", "@", "b", ".", "c">> >>
Statuses == {"pending", "active", "unsubscribed"}

SeedSubscriber(i, st) ==
    [email |-> SeedEmails[i], status |-> st,
     confirmed_at |-> IF st = "pending" THEN Null ELSE 1,
     welcome_sent_at |-> IF st = "pending" THEN Null ELSE 1]

SeedTokens(i, st) ==
    LET c == TokenRow(i, "confirm", sha256Hex(50 + 2 * i - 1), 1 + ConfirmTtl)
        u == TokenRow(i, "unsubscribe", sha256Hex(50 + 2 * i), 1 + UnsubTtl)
    IN IF st = "pending" THEN <<c>>
       ELSE << [c EXCEPT !.used_at = 1],
               [u EXCEPT !.used_at = IF st = "unsubscribed" THEN 1 ELSE Null] >>

SeedActivations(st) ==
    IF st = "pending" THEN <<0>>
    ELSE <<1, IF st = "unsubscribed" THEN 1 ELSE 0>>

InitSeeded ==
    /\ \E st1, st2 \in Statuses, prior \in BOOLEAN :
         /\ prior => st1 # "pending"
         /\ subscribers = <<SeedSubscriber(1, st1), SeedSubscriber(2, st2)>>
         /\ tokens = SeedTokens(1, st1) \o SeedTokens(2, st2)
                       \o (IF prior
                           THEN <<TokenRow(1, "unsubscribe", sha256Hex(55), 1 + UnsubTtl)>>
                           ELSE <<>>)
         /\ activations = SeedActivations(st1) \o SeedActivations(st2)
                            \o (IF prior THEN <<0>> ELSE <<>>)
         /\ newsletters = IF prior THEN <<IssueRow(PrePath)>> ELSE <<>>
         /\ blobs = IF prior THEN {PrePath} ELSE {}
    /\ now = 1
    /\ ticks = 0
    /\ nextRaw = 1
    /\ env = [siteUrl |-> TRUE, resendFrom |-> TRUE]
    /\ req = [p \in Slots |-> IdleReq]
    /\ job = [j \in Jobs |-> IdleJob]
    /\ outbox = {}
    /\ faults = 0

SendStep(j) ==
    \/ SendUploadUpload(j)
    \/ SendUploadRecipients(j)
    \/ SendUploadMint(j)
    \/ SendUploadAttempt(j)
    \/ SendUploadBackoff(j)
    \/ SendUploadThrottle(j)
    \/ SendUploadClear(j)
    \/ SendUploadInsertIssue(j)

\* A request starts only while the token budget covers all its recipients.
NextSend ==
    \/ /\ nextRaw + Len(subscribers) <= MaxTokens + 1
       /\ \E form \in SendForms : SendUploadStart(1, form)
    \/ SendUploadUpload(1)
    \/ SendUploadRecipients(1)
    \/ SendUploadMint(1)
    \/ SendUploadAttempt(1)
    \/ SendUploadBackoff(1)
    \/ SendUploadThrottle(1)
    \/ SendUploadClear(1)
    \/ SendUploadInsertIssue(1)
    \/ JobClose(1)

SpecSend == InitSeeded /\ [][NextSend]_vars

\* The runtime resumes every awaiting handler: a started request keeps
\* taking its steps.
FairSpecSend == SpecSend /\ WF_vars(SendStep(1))

(***************************************************************************)
(* SpecRace: two send-upload requests in flight at once.                   *)
(***************************************************************************)
NextRace ==
    \/ \E j \in Jobs, form \in SendForms : SendUploadStart(j, form)
    \/ \E j \in Jobs : SendUploadUpload(j)
    \/ \E j \in Jobs : SendUploadRecipients(j)
    \/ \E j \in Jobs : SendUploadMint(j)
    \/ \E j \in Jobs : SendUploadAttempt(j)
    \/ \E j \in Jobs : SendUploadBackoff(j)
    \/ \E j \in Jobs : SendUploadThrottle(j)
    \/ \E j \in Jobs : SendUploadClear(j)
    \/ \E j \in Jobs : SendUploadInsertIssue(j)
    \/ \E j \in Jobs : JobClose(j)

\* Subscriber 1 active, subscriber 2 pending, a previous issue is the latest.
InitRace ==
    /\ InitSeeded
    /\ subscribers[1].status = "active"
    /\ subscribers[2].status = "pending"
    /\ newsletters # <<>>

SpecRace == InitRace /\ [][NextRace]_vars

(***************************************************************************)
(* SpecSub: two subscribe requests (of either kind) in flight at once,     *)
(* from an empty store.                                                    *)
(***************************************************************************)
NextSub ==
    \/ \E p \in Slots, e \in EmailInputs : SubscribeStart(p, e)
    \/ \E p \in Slots : SubscribeFind(p)
    \/ \E p \in Slots : SubscribeInsert(p)
    \/ \E p \in Slots, e \in EmailInputs : SubscribeConfirmStart(p, e)
    \/ \E p \in Slots : SubscribeConfirmFind(p)
    \/ \E p \in Slots : SubscribeConfirmInsert(p)
    \/ \E p \in Slots : SubscribeConfirmToken(p)
    \/ \E p \in Slots : SubscribeConfirmEmail(p)
    \/ \E p \in Slots : ReqClose(p)

SpecSub == Init /\ [][NextSub]_vars

(***************************************************************************)
(* SpecCfg: the requests of Spec, one at a time, in a deployment in which  *)
(* either configuration value may be missing.                              *)
(***************************************************************************)
InitCfg ==
    /\ subscribers = <<>>
    /\ tokens = <<>>
    /\ newsletters = <<>>
    /\ activations = <<>>
    /\ now = 1
    /\ ticks = 0
    /\ nextRaw = 1
    /\ env \in [siteUrl : BOOLEAN, resendFrom : BOOLEAN]
    /\ req = [p \in Slots |-> IdleReq]
    /\ job = [j \in Jobs |-> IdleJob]
    /\ outbox = {}
    /\ blobs = {}
    /\ faults = 0

SpecCfg == InitCfg /\ [][Next]_vars

(***************************************************************************)
(* SpecConfirmRace: two POST /api/newsletter/confirm requests in flight at *)
(* once, against a store in which both subscribers are pending and hold    *)
(* the confirm token of their subscription.                                *)
(***************************************************************************)
InitConfirmRace ==
    /\ InitSeeded
    /\ subscribers[1].status = "pending"
    /\ subscribers[2].status = "pending"

NextConfirmRace ==
    \/ \E p \in Slots, raw \in RawInputs : ConfirmStart(p, "confirm", raw)
    \/ \E p \in Slots : ConfirmFindToken(p)
    \/ \E p \in Slots : ConfirmActivate(p)
    \/ \E p \in Slots : ConfirmMarkUsed(p)
    \/ \E p \in Slots : ConfirmLoadSub(p)
    \/ \E p \in Slots : ConfirmMintUnsub(p)
    \/ \E p \in Slots : ConfirmWelcome(p)
    \/ \E p \in Slots : ConfirmStampWelcome(p)
    \/ \E p \in Slots : ReqClose(p)

SpecConfirmRace == InitConfirmRace /\ [][NextConfirmRace]_vars

(***************************************************************************)
(* SpecSendLive: one send-upload request at a time while unsubscribe       *)
(* requests come in, so that statuses change during a bulk send; from the  *)
(* store of InitRace (subscriber 1 active, subscriber 2 pending).          *)
(***************************************************************************)
NextSendLive ==
    \/ /\ nextRaw + Len(subscribers) <= MaxTokens + 1
       /\ \E form \in SendForms : SendUploadStart(1, form)
    \/ SendStep(1)
    \/ JobClose(1)
    \/ \E raw \in RawInputs : UnsubscribeStart(1, raw)
    \/ UnsubscribeFindToken(1)
    \/ UnsubscribeReadSub(1)
    \/ UnsubscribeUpdate(1)
    \/ UnsubscribeMarkUsed(1)
    \/ ReqClose(1)

SpecSendLive == InitRace /\ [][NextSendLive]_vars

(***************************************************************************)
(* SpecLetters: the html bulk send and the unsubscribe links it mails,     *)
(* one request at a time, against the seeded store.                        *)
(***************************************************************************)
NextLetters ==
    \/ /\ Quiet
       /\ nextRaw + Len(subscribers) <= MaxTokens + 1
       /\ \E body \in SendBodies : SendStart(1, body)
    \/ SendRecipients(1)
    \/ SendMint(1)
    \/ SendDeliver(1)
    \/ JobClose(1)
    \/ Quiet /\ \E raw \in RawInputs : UnsubscribeStart(1, raw)
    \/ UnsubscribeFindToken(1)
    \/ UnsubscribeReadSub(1)
    \/ UnsubscribeUpdate(1)
    \/ UnsubscribeMarkUsed(1)
    \/ ReqClose(1)
    \/ Quiet /\ Tick

SpecLetters == InitSeeded /\ [][NextLetters]_vars

(***************************************************************************)
(* SpecLinks: the links of the mails being followed: confirm calls (both   *)
(* variants) and unsubscribe calls, one at a time, against the seeded      *)
(* store of two subscribers.                                               *)
(***************************************************************************)
NextLinks ==
    \/ Quiet /\ \E op \in ConfirmOps, raw \in RawInputs : ConfirmStart(1, op, raw)
    \/ ConfirmFindToken(1)
    \/ ConfirmActivate(1)
    \/ ConfirmMarkUsed(1)
    \/ ConfirmLoadSub(1)
    \/ ConfirmMintUnsub(1)
    \/ ConfirmWelcome(1)
    \/ ConfirmStampWelcome(1)
    \/ Quiet /\ \E raw \in RawInputs : UnsubscribeStart(1, raw)
    \/ UnsubscribeFindToken(1)
    \/ UnsubscribeReadSub(1)
    \/ UnsubscribeUpdate(1)
    \/ UnsubscribeMarkUsed(1)
    \/ ReqClose(1)
    \/ Quiet /\ Tick

SpecLinks == InitSeeded /\ [][NextLinks]_vars

(***************************************************************************)
(* The admin gate (src/portfolio/src/middleware.ts): HTTP Basic Auth in    *)
(* front of the admin page and the admin endpoints.                        *)
(***************************************************************************)
\* auth.split(" ")
RECURSIVE Split(_)
Split(s) ==
    LET sp == {i \in 1..Len(s) : s[i] = " "}
    IN IF sp = {} THEN <<s>>
       ELSE LET i == CHOOSE k \in sp : \A m \in sp : k <= m
            IN <<SubSeq(s, 1, i - 1)>> \o Split(SubSeq(s, i + 1, Len(s)))

Base64Alphabet ==
    <<"A", "B", "C", "D", "E", "F", "G", "H", "I", "J", "K", "L", "M",
      "N", "O", "P", "Q", "R", "S", "T", "U", "V", "W", "X", "Y", "Z",
      "a", "b", "c", "d", "e", "f", "g", "h", "i", "j", "k", "l", "m",
      "n", "o", "p", "q", "r", "s", "t", "u", "v", "w", "x", "y", "z",
      "0", "1", "2", "3", "4", "5", "6", "7", "8", "9", "+", "/">>

Base64Value(c) == (CHOOSE i \in 1..64 : Base64Alphabet[i] = c) - 1

\* A string of base64 characters, as the bytes it encodes: 4 characters are
\* 3 bytes; of a last group of 2 or 3 characters the leftover bits are dropped.
RECURSIVE DecodeGroups(_)
DecodeGroups(d) ==
    LET v(k) == Base64Value(d[k])
    IN CASE Len(d) = 0 -> <<>>
         [] Len(d) = 2 -> <<(v(1) * 64 + v(2)) \div 16>>
         [] Len(d) = 3 ->
              LET w == v(1) * 4096 + v(2) * 64 + v(3)
              IN <<w \div 1024, (w \div 4) % 256>>
         [] OTHER ->
              LET w == v(1) * 262144 + v(2) * 4096 + v(3) * 64 + v(4)
              IN <<w \div 65536, (w \div 256) % 256, w % 256>>
                   \o DecodeGroups(SubSeq(d, 5, Len(d)))

\* atob: with a length divisible by 4, one or two trailing "=" are removed;
\* then a length of 1 modulo 4, or a character outside the alphabet, throws.
\* The result is the string whose character codes are the decoded bytes.
AtobThrows == <<-1>>

atob(encoded) ==
    LET n == Len(encoded)
        pad == IF n % 4 = 0 /\ n > 0 /\ encoded[n] = "="
               THEN IF encoded[n - 1] = "=" THEN 2 ELSE 1
               ELSE 0
        d == SubSeq(encoded, 1, n - pad)
    IN IF \/ Len(d) % 4 = 1
          \/ \E i \in 1..Len(d) : \A k \in 1..64 : Base64Alphabet[k] # d[i]
       THEN AtobThrows
       ELSE DecodeGroups(d)

\* The character codes of a configured credential.
CharCode(c) ==
    CASE c = ":" -> 58
      [] c = "U" -> 85
      [] c = "p" -> 112
      [] c = "q" -> 113
      [] c = "u" -> 117
      [] c = "x" -> 120

CharCodes(s) == [i \in 1..Len(s) |-> CharCode(s[i])]

\* decoded.indexOf(":"), counting from 1; 0 when there is none.
IndexOfColon(decoded) ==
    LET c == {i \in 1..Len(decoded) : decoded[i] = 58}
    IN IF c = {} THEN 0 ELSE CHOOSE i \in c : \A k \in c : i <= k

unauthorized == Err(401, "Unauthorized")
NextResponse == [ok |-> TRUE, http |-> 0, status |-> "next"]

BasicScheme == <<"B", "a", "s", "i", "c">>

\* user, pass: the configured credentials, <<>> when missing or empty;
\* auth: the Authorization header, <<>> when the request has none.
middlewareOpen(user, pass, auth) ==
    LET parts == Split(auth)
        scheme == parts[1]
        encoded == IF Len(parts) >= 2 THEN parts[2] ELSE <<>>
        decoded == atob(encoded)
        idx == IndexOfColon(decoded)
        u == IF idx >= 1 THEN SubSeq(decoded, 1, idx - 1) ELSE <<>>
        p == IF idx >= 1 THEN SubSeq(decoded, idx + 1, Len(decoded)) ELSE <<>>
    IN CASE scheme # BasicScheme \/ encoded = <<>> -> unauthorized
         [] decoded = AtobThrows -> unauthorized
         [] u # CharCodes(user) \/ p # CharCodes(pass) -> unauthorized
         [] OTHER -> NextResponse

middleware(user, pass, auth) ==
    LET parts == Split(auth)
        scheme == parts[1]
        encoded == IF Len(parts) >= 2 THEN parts[2] ELSE <<>>
        decoded == atob(encoded)
        idx == IndexOfColon(decoded)
        u == IF idx >= 1 THEN SubSeq(decoded, 1, idx - 1) ELSE <<>>
        p == IF idx >= 1 THEN SubSeq(decoded, idx + 1, Len(decoded)) ELSE <<>>
    IN CASE user = <<>> \/ pass = <<>> -> unauthorized
         [] scheme # BasicScheme \/ encoded = <<>> -> unauthorized
         [] decoded = AtobThrows -> unauthorized
         [] u # CharCodes(user) \/ p # CharCodes(pass) -> unauthorized
         [] OTHER -> NextResponse

\* config.matcher: "/admin/:path*", "/api/newsletter/send/:path*",
\* "/api/newsletter/send-upload/:path*", "/api/newsletter/stats/:path*".
\* A path is the sequence of its segments.
matcher ==
    { <<"admin">>,
      <<"api", "newsletter", "send">>,
      <<"api", "newsletter", "send-upload">>,
      <<"api", "newsletter", "stats">> }

Matches(path) ==
    \E m \in matcher : Len(m) <= Len(path) /\ SubSeq(path, 1, Len(m)) = m

Paths ==
    matcher \cup { <<"admin", "newsletter">>,
                   <<"api", "newsletter", "confirm">>,
                   <<"api", "subscribe">> }

\* Authorization headers a client may send: the header text, and the user-id
\* and password its first credentials token carries by base64 (NoCreds when
\* the token is missing, is not base64 or holds no colon).
NoCreds == <<>>

AuthHeaders ==
    LET h(text, creds) == [text |-> text, creds |-> creds]
    IN { h(<<>>,
           NoCreds),
         h(<<"B", "a", "s", "i", "c", " ", "d", "T", "p", "w">>,
           <<<<"u">>, <<"p">>>>),
         h(<<"B", "a", "s", "i", "c", " ", "d", "T", "p", "w", " ", "e", "x", "t", "r", "a">>,
           <<<<"u">>, <<"p">>>>),
         h(<<"b", "a", "s", "i", "c", " ", "d", "T", "p", "w">>,
           <<<<"u">>, <<"p">>>>),
         h(<<"B", "e", "a", "r", "e", "r", " ", "d", "T", "p", "w">>,
           NoCreds),
         h(<<"B", "a", "s", "i", "c">>,
           NoCreds),
         h(<<"B", "a", "s", "i", "c", " ", " ", "d", "T", "p", "w">>,
           <<<<"u">>, <<"p">>>>),
         h(<<"B", "a", "s", "i", "c", " ", "d", "T", "p", "x">>,
           <<<<"u">>, <<"q">>>>),
         h(<<"B", "a", "s", "i", "c", " ", "V", "T", "p", "w">>,
           <<<<"U">>, <<"p">>>>),
         h(<<"B", "a", "s", "i", "c", " ", "d", "Q", "=", "=">>,
           NoCreds),
         h(<<"B", "a", "s", "i", "c", " ", "d", "T", "p", "w", "O", "n", "g", "=">>,
           <<<<"u">>, <<"p", ":", "x">>>>),
         h(<<"B", "a", "s", "i", "c", " ", "d", "T", "p", "w", "O", "n", "h">>,
           <<<<"u">>, <<"p", ":", "x">>>>),
         h(<<"B", "a", "s", "i", "c", " ", "d", "T", "p", "w", "=">>,
           NoCreds),
         h(<<"B", "a", "s", "i", "c", " ", "d", "T", "p", "!">>,
           NoCreds),
         h(<<"B", "a", "s", "i", "c", " ", "O", "n", "A", "=">>,
           <<<<>>, <<"p">>>>),
         h(<<"B", "a", "s", "i", "c", " ", "d", "T", "o", "=">>,
           <<<<"u">>, <<>>>>),
         h(<<"B", "a", "s", "i", "c", " ", "O", "g", "=", "=">>,
           <<<<>>, <<>>>>) }

AdminUsers == { <<>>, <<"u">> }
AdminPasses == { <<>>, <<"p">>, <<"p", ":", "x">> }

\* One request to a path: the middleware runs when the matcher matches, and
\* its answer is the response unless it is NextResponse.next().
Middleware(p, path, auth) ==
    /\ Free(p)
    /\ req' = [req EXCEPT ![p] =
                 [op |-> "middleware", pc |-> "done", path |-> path, auth |-> auth,
                  resp |-> IF Matches(path)
                           THEN middleware(env.adminUser, env.adminPass, auth.text)
                           ELSE NextResponse]]
    /\ UNCHANGED <<storeVars, clockVars, nextRaw, env, blobs, job, outbox, faults>>

(***************************************************************************)
(* SpecAdmin: requests through the admin gate, in a deployment in which    *)
(* either credential may be missing.                                       *)
(***************************************************************************)
InitAdmin ==
    /\ subscribers = <<>>
    /\ tokens = <<>>
    /\ newsletters = <<>>
    /\ activations = <<>>
    /\ now = 1
    /\ ticks = 0
    /\ nextRaw = 1
    /\ \E user \in AdminUsers, pass \in AdminPasses :
          env = [siteUrl |-> TRUE, resendFrom |-> TRUE,
                 adminUser |-> user, adminPass |-> pass]
    /\ req = [p \in Slots |-> IdleReq]
    /\ job = [j \in Jobs |-> IdleJob]
    /\ outbox = {}
    /\ blobs = {}
    /\ faults = 0

NextAdmin ==
    \/ \E p \in Slots, path \in Paths, auth \in AuthHeaders : Middleware(p, path, auth)
    \/ \E p \in Slots : ReqClose(p)

SpecAdmin == InitAdmin /\ [][NextAdmin]_vars

(***************************************************************************)
(*                              PROPERTIES                                 *)
(***************************************************************************)
Last(s) == s[Len(s)]
Done(p, op) == req[p].op = op /\ req[p].pc = "done"
LinkExpired == Err(400, "Link expired.")

\* C1: for every issued confirm token, over any sequence of POST
\* /api/newsletter/confirm calls carrying its raw value (store writes may
\* fail), exactly one call activates the subscriber; no later call with the
\* same raw value activates again.
C1_ConfirmActivatesOnce ==
    \A t \in DOMAIN tokens : tokens[t].type = "confirm" => activations[t] <= 1

\* C2 as stated: a confirm or unsubscribe call that carries the raw value of a
\* stored token with expires_at <= now answers "Link expired", whatever the
\* token's used_at.
C2_ExpiredAlwaysRejected ==
    \A p \in Slots :
        /\ req[p].pc = "done"
        /\ req[p].op \in {"confirm", "unsubscribe"}
        /\ req[p].tokenId # 0
        /\ req[p].tokExpires <= req[p].nowIso
        => req[p].resp = LinkExpired

\* C2 as amended: with expires_at <= now, an unsubscribe call answers "Link
\* expired" whatever used_at is; a confirm call answers "Link expired" when
\* used_at is null and ok:true already_confirmed when used_at is set.
C2_ExpiredRejectedUnlessUsedConfirm ==
    \A p \in Slots :
        /\ req[p].pc = "done"
        /\ req[p].op \in {"confirm", "unsubscribe"}
        /\ req[p].tokenId # 0
        /\ req[p].tokExpires <= req[p].nowIso
        => req[p].resp = IF req[p].op = "confirm" /\ req[p].tokUsed # Null
                         THEN Ok("already_confirmed")
                         ELSE LinkExpired

\* An unsubscribe call with a token that is both used and expired has been
\* answered "Link expired".
C2_Witness ==
    \E p \in Slots :
        /\ Done(p, "unsubscribe")
        /\ req[p].tokenId # 0
        /\ req[p].tokUsed # Null
        /\ req[p].tokExpires <= req[p].nowIso
        /\ req[p].resp = LinkExpired

\* C3: a subscriber's status becomes active (or its activation is written
\* again) only in the activating step of a confirm call whose raw token hashes
\* to a stored token of type confirm, owned by that subscriber, with used_at
\* null and expires_at > now; no other step writes status = active.
ActivatedIn(i) ==
    /\ subscribers'[i].status = "active"
    /\ \/ i \notin DOMAIN subscribers
       \/ subscribers[i].status # "active"
       \/ subscribers[i].confirmed_at # subscribers'[i].confirmed_at

ValidConfirmStep(p, i) ==
    /\ req[p].op \in ConfirmOps
    /\ req[p].pc = "activate"
    /\ req'[p].pc = "markUsed"
    /\ req[p].tokenId \in DOMAIN tokens
    /\ LET t == tokens[req[p].tokenId]
       IN /\ t.type = "confirm"
          /\ t.token_hash = sha256Hex(req[p].rawToken)
          /\ t.subscriber_id = i
          /\ t.used_at = Null
          /\ t.expires_at > now

C3_ActiveOnlyByValidConfirm ==
    [][\A i \in DOMAIN subscribers' :
          ActivatedIn(i) => \E p \in Slots : ValidConfirmStep(p, i)]_vars

C3_Witness ==
    \E p \in Slots :
        /\ req[p].op \in ConfirmOps
        /\ req[p].pc = "markUsed"
        /\ req[p].activated
        /\ subscribers[req[p].subscriberId].status = "active"
        /\ subscribers[req[p].subscriberId].confirmed_at = req[p].nowIso

\* C4: a subscriber whose status is unsubscribed never becomes active
\* directly; in particular a confirm call made while the subscriber is
\* unsubscribed does not set status = active.
C4_UnsubscribedNeverActivated ==
    [][\A i \in DOMAIN subscribers :
          subscribers[i].status = "unsubscribed" => subscribers'[i].status # "active"]_vars

\* C5: a send-upload over N resolved recipients of which M fail processes
\* every recipient exactly once, in order, whatever failed before; it leaves
\* the loop only after the N-th; its result has sent = N - M, failedCount = M
\* and one {email, error} entry per failed recipient, naming that recipient;
\* and the loop terminates.
FailedPositions(b) == {k \in 1..Len(b.log) : b.log[k].outcome # "sent"}

LoopPcs == {"mint", "send", "backoff", "throttle"}

C5_LoopAccounting ==
    \A j \in Jobs :
        LET b == job[j]
            N == Len(b.recipients)
            M == Cardinality(FailedPositions(b))
            failedIds == SortedSeq(FailedPositions(b))
        IN /\ Len(b.log) <= N
           /\ \A k \in 1..Len(b.log) : b.log[k].id = b.recipients[k]
           /\ b.pc \in LoopPcs => Len(b.log) = b.idx - 1
           /\ b.sent = Len(b.log) - M
           /\ Len(b.failed) = M
           /\ \A k \in 1..M :
                b.failed[k].email = subscribers[b.log[failedIds[k]].id].email
           /\ (b.pc \in {"clear", "insertIssue"}) => Len(b.log) = N
           /\ (b.pc = "done" /\ b.resp.ok) =>
                /\ Len(b.log) = N
                /\ b.resp.sent = N - M
                /\ b.resp.failedCount = M
                /\ b.resp.sent + b.resp.failedCount = N
                /\ b.resp.failed = b.failed

C5_BulkSendCountsAndTerminates ==
    /\ []C5_LoopAccounting
    /\ \A j \in Jobs : (job[j].pc \in LoopPcs) ~> (job[j].pc \notin LoopPcs)

\* Two recipients, the first failed and the second was still sent to.
C5_Witness ==
    \E j \in Jobs :
        /\ job[j].pc = "done"
        /\ job[j].resp.ok
        /\ Len(job[j].recipients) = 2
        /\ job[j].log[1].outcome # "sent"
        /\ job[j].log[2].outcome = "sent"
        /\ job[j].resp.sent = 1
        /\ job[j].resp.failedCount = 1

\* C6: for one recipient the Mailer is called at most 4 times; every call
\* but the last was refused for the rate limit (so nothing follows a success
\* or another kind of failure); a failure of another kind is the error
\* reported for the recipient; and the retry loop terminates.
RetryPcs == {"send", "backoff"}

C6_RetryShape ==
    \A j \in Jobs :
        LET b == job[j]
        IN /\ Len(b.trace) <= 4
           /\ \A k \in 1..(Len(b.trace) - 1) : b.trace[k] = "rate"
           /\ (b.pc \notin (LoopPcs \cup {"idle"}) \/ (b.pc = "mint" /\ b.idx > 1))
                /\ b.trace # <<>> /\ Last(b.trace) # "ok"
              => /\ Last(b.log).outcome = "failed"
                 /\ Last(b.log).calls = Len(b.trace)
                 /\ Last(b.failed).error = b.lastErr.text
                 /\ Last(b.trace) = "other" => ~b.lastErr.rate

C6_RetryBounded ==
    /\ []C6_RetryShape
    /\ \A j \in Jobs : (job[j].pc \in RetryPcs) ~> (job[j].pc \notin RetryPcs)

\* Four calls were made for one recipient, all refused for the rate limit.
C6_Witness ==
    \E j \in Jobs :
        /\ job[j].pc \notin RetryPcs
        /\ job[j].trace = <<"rate", "rate", "rate", "rate">>
        /\ Last(job[j].log).outcome = "failed"

\* C7: the newsletters table changes only in the bookkeeping steps of a
\* send-upload request whose sent count is greater than 0.
C7_IssueOnlyIfSent ==
    [][newsletters' # newsletters =>
         \E j \in Jobs : /\ job[j].pc \in {"clear", "insertIssue"}
                         /\ job[j].sent > 0
                         /\ job'[j] # job[j]]_vars

\* Every recipient failed: the request is answered with sent = 0 and the
\* table is what it was.
C7_Witness ==
    \E j \in Jobs :
        /\ job[j].pc = "done"
        /\ job[j].resp.ok
        /\ Len(job[j].recipients) = 2
        /\ job[j].resp.sent = 0
        /\ job[j].resp.failedCount = 2
        /\ newsletters = <<IssueRow(PrePath)>>

\* C8: in every reachable state, concurrent send-upload requests included,
\* at most one newsletters row has is_latest = true.
C8_AtMostOneLatest == Cardinality(LatestIds) <= 1

\* C9: a step of a subscribe request whose raw email trims and lower-cases to
\* the email of a pending or active row, the store answering, ends the request
\* with ok:true and that row's status and leaves the subscribers table as it
\* was (no second row, the row unchanged).
C9_SubscribeIdempotent ==
    [][\A p \in Slots, i \in DOMAIN subscribers :
          /\ req[p].op = "subscribe"
          /\ req'[p] # req[p]
          /\ req[p].pc # "done"
          /\ subscribers[i].email = ToLowerCase(Trim(req[p].emailRaw))
          /\ subscribers[i].status \in {"pending", "active"}
          /\ faults' = faults
          => /\ req'[p].pc = "done"
             /\ req'[p].resp = Ok(subscribers[i].status)
             /\ subscribers' = subscribers]_vars

\* A repeated subscribe with another spelling of an active subscriber's
\* email has been answered ok:true, status active.
C9_Witness ==
    \E p \in Slots :
        /\ Done(p, "subscribe")
        /\ req[p].emailRaw # req[p].email
        /\ Len(subscribers) = 1
        /\ subscribers[1].email = req[p].email
        /\ subscribers[1].status = "active"
        /\ req[p].resp = Ok("active")

\* C10: in every reachable state, under any interleaving of concurrent
\* subscribe and subscribe-with-confirmation requests, no two subscriber rows
\* have the same trimmed, lower-cased email.
C10_OneRowPerEmail ==
    \A i, k \in DOMAIN subscribers :
        ToLowerCase(Trim(subscribers[i].email)) = ToLowerCase(Trim(subscribers[k].email))
            => i = k

\* Two requests both saw no row; one inserted, the other's insert was refused.
C10_Witness ==
    /\ Len(subscribers) = 1
    /\ \E p \in Slots :
          /\ req[p].pc = "done"
          /\ req[p].op \in {"subscribe", "subscribeConfirm"}
          /\ req[p].existed = IdleReq.existed
          /\ req[p].resp = Err(500, "duplicate key")


\* C11: a step of a subscribe request (POST /api/subscribe) whose raw email
\* trims and lower-cases to the email of an unsubscribed row ends the request
\* with an error response and leaves the subscribers table, the token table
\* and the outbox as they were.
C11_SubscribeUnsubscribedRefused ==
    [][\A p \in Slots, i \in DOMAIN subscribers :
          /\ req[p].op = "subscribe"
          /\ req'[p] # req[p]
          /\ req[p].pc # "done"
          /\ subscribers[i].email = ToLowerCase(Trim(req[p].emailRaw))
          /\ subscribers[i].status = "unsubscribed"
          => /\ req'[p].pc = "done"
             /\ ~req'[p].resp.ok
             /\ faults' = faults =>
                  req'[p].resp = Err(400, "That email is unsubscribed.")
             /\ subscribers' = subscribers
             /\ tokens' = tokens
             /\ outbox' = outbox]_vars

\* A subscribe call for an unsubscribed email has been refused.
C11_Witness ==
    \E p \in Slots :
        /\ Done(p, "subscribe")
        /\ req[p].subscriberId \in DOMAIN subscribers
        /\ subscribers[req[p].subscriberId].status = "unsubscribed"
        /\ req[p].existed = "unsubscribed"
        /\ req[p].resp = Err(400, "That email is unsubscribed.")


\* C12: an unsubscribe call with an unused, unexpired unsubscribe token that
\* is answered ok returns status canceled when the owning subscriber's status
\* was pending and status unsubscribed when it was active, and in both cases
\* the persisted status afterwards is unsubscribed.
C12_UnsubscribeClassified ==
    \A p \in Slots :
        /\ Done(p, "unsubscribe")
        /\ req[p].tokenId # 0
        /\ req[p].tokUsed = Null
        /\ req[p].tokExpires > req[p].nowIso
        /\ req[p].existed \in {"pending", "active"}
        /\ req[p].resp.ok
        => /\ req[p].existed = "pending" => req[p].resp = Ok("canceled")
           /\ req[p].existed = "active" => req[p].resp = Ok("unsubscribed")
           /\ subscribers[req[p].subscriberId].status = "unsubscribed"

\* A pending subscriber's unsubscribe link has been used: canceled.
C12_Witness ==
    \E p \in Slots :
        /\ Done(p, "unsubscribe")
        /\ req[p].tokUsed = Null
        /\ req[p].existed = "pending"
        /\ req[p].resp = Ok("canceled")
        /\ subscribers[req[p].subscriberId].status = "unsubscribed"


\* C13: once an unsubscribe call with raw token U has written the
\* subscriber's status (such a call is answered ok:true), no later
\* unsubscribe call with U writes the subscriber row again: over all calls
\* carrying U there is at most one unsubscribing write.
C13_UnsubscribeIdempotent ==
    \A t \in DOMAIN tokens : tokens[t].type = "unsubscribe" => activations[t] <= 1


\* C14: a POST /api/newsletter/confirm call that has written status = active
\* is answered ok:true and the subscriber is active when it returns, whatever
\* failed in the steps after the activation.
C14_ActivatedMeansOk ==
    \A p \in Slots :
        Done(p, "confirm") /\ req[p].activated
        => /\ req[p].resp.ok
           /\ subscribers[req[p].subscriberId].status = "active"


\* C15: across any sequence or interleaving of confirm calls for one
\* subscriber, the Mailer accepts at most one welcome mail for that
\* subscriber, and a welcome_sent_at that is set is never written again.
WelcomeMails(i) ==
    {m \in outbox : m.kind = "welcome" /\ m.to = subscribers[i].email}

C15_OneWelcomePerSubscriber ==
    /\ [](\A i \in DOMAIN subscribers : Cardinality(WelcomeMails(i)) <= 1)
    /\ [][\A i \in DOMAIN subscribers :
            subscribers[i].welcome_sent_at # Null
            => \A p \in Slots :
                 (At(p, "confirm", "stampWelcome") /\ req[p].subscriberId = i)
                 => req'[p] = req[p]]_vars


\* C16: a request that ends in a validation error or a missing-configuration
\* error has written nothing to the store, uploaded no blob and called the
\* Mailer for nothing: the error is returned by the handler's first step,
\* before any store, storage or Mailer call, and that step changes none of them.
InputOrConfigErrors ==
    {"Invalid email address.", "Missing token.", "Missing subject.",
     "Missing file upload.", "Only .pdf or .docx files are allowed.",
     "File too large (max 10MB).", "Missing subject or html.",
     "Missing NEXT_PUBLIC_SITE_URL env var.", "Missing RESEND_FROM env var."}

NoSideEffect ==
    /\ subscribers' = subscribers
    /\ tokens' = tokens
    /\ newsletters' = newsletters
    /\ blobs' = blobs
    /\ outbox' = outbox

C16_ErrorsShortCircuit ==
    [][/\ \A p \in Slots :
            /\ req[p].pc # "done" /\ req'[p].pc = "done"
            /\ ~req'[p].resp.ok
            /\ req'[p].resp.status \in InputOrConfigErrors
            => req[p].pc = "idle" /\ NoSideEffect
       /\ \A j \in Jobs :
            /\ job[j].pc # "done" /\ job'[j].pc = "done"
            /\ ~job'[j].resp.ok
            /\ job'[j].resp.status \in InputOrConfigErrors
            => job[j].pc = "idle" /\ NoSideEffect]_vars


\* C17: in every bulk-send endpoint, a request whose testEmail is the email
\* of a subscriber whose status is not active never reaches the minting or
\* sending steps, and it is answered with an error which, unless the store
\* failed, is the eligibility error naming the subscriber's status.
SendingPcs ==
    {"mint", "send", "backoff", "throttle", "clear", "insertIssue",
     "sMint", "sDeliver"}

C17_TestEmailMustBeActive ==
    \A j \in Jobs, i \in DOMAIN subscribers :
        /\ job[j].testEmail # <<>>
        /\ subscribers[i].email = job[j].testEmail
        /\ subscribers[i].status # "active"
        => /\ job[j].pc \notin SendingPcs
           /\ job[j].pc = "done" =>
                /\ ~job[j].resp.ok
                /\ (job[j].resp.http = 400
                      /\ job[j].resp.status \notin InputOrConfigErrors)
                   => job[j].resp.status =
                        "Test email is not active (status=" \o subscribers[i].status
                          \o "). Subscribe + confirm first."


\* C18: with no testEmail, the recipient query of a send-upload request
\* yields exactly the subscribers whose status is active at that step, each
\* once; afterwards every unsubscribe token the request mints and every
\* Mailer call it makes is for one of those recipients, and when the request
\* is answered ok every one of them has been attempted.
RecipientSet(b) == {b.recipients[k] : k \in 1..Len(b.recipients)}

C18_QueryStep ==
    \A j \in Jobs :
        /\ job[j].pc = "recipients"
        /\ job[j].testEmail = <<>>
        /\ job'[j] # job[j]
        /\ faults' = faults
        => /\ RecipientSet(job'[j]) =
                {i \in DOMAIN subscribers : subscribers[i].status = "active"}
           /\ Len(job'[j].recipients) = Cardinality(RecipientSet(job'[j]))

C18_OnlyRecipientsServed ==
    /\ \A t \in DOMAIN tokens' \ DOMAIN tokens :
          \E j \in Jobs : /\ job[j].pc = "mint"
                          /\ tokens'[t].type = "unsubscribe"
                          /\ tokens'[t].subscriber_id = job[j].recipients[job[j].idx]
    /\ \A m \in outbox' \ outbox :
          \E j \in Jobs : /\ job[j].pc = "send"
                          /\ m.to = subscribers[job[j].recipients[job[j].idx]].email
                          /\ m.unsubRaw = job[j].unsubRaw

C18_AllAttempted ==
    \A j \in Jobs :
        job[j].pc = "done" /\ job[j].resp.ok
        => {job[j].log[k].id : k \in 1..Len(job[j].log)} = RecipientSet(job[j])

C18_RecipientsAreTheActive ==
    /\ [][C18_QueryStep /\ C18_OnlyRecipientsServed]_vars
    /\ []C18_AllAttempted

\* A subscriber who was active when the query ran and unsubscribed during
\* the send was still sent to; the other subscriber, not active, was not.
C18_Witness ==
    \E j \in Jobs :
        /\ job[j].pc = "done"
        /\ job[j].resp.ok
        /\ job[j].testEmail = <<>>
        /\ job[j].recipients = <<1>>
        /\ subscribers[1].status = "unsubscribed"
        /\ subscribers[2].status = "pending"
        /\ job[j].log[1].outcome = "sent"


\* C19: a subscribe-with-confirmation request for an email whose subscriber
\* row has status unsubscribed, the store and the Mailer answering, returns
\* ok:true with status pending and leaves that row with status pending.
C19_ResubscribeReactivates ==
    \A p \in Slots :
        /\ Done(p, "subscribeConfirm")
        /\ req[p].existed = "unsubscribed"
        /\ req[p].resp.http # 500
        => /\ req[p].resp = Ok("pending")
           /\ subscribers[req[p].subscriberId].status = "pending"

\* C20: a subscribe-with-confirmation request for a new or still-pending
\* email that returns ok:true, pending has inserted one confirm token
\* (expires_at = now + 24h) and one unsubscribe token (expires_at = now +
\* 365d), both owned by the subscriber and unused, and the Mailer accepted
\* one mail to the subscriber carrying both raw values.
C20_BothTokensIssued ==
    \A p \in Slots :
        /\ Done(p, "subscribeConfirm")
        /\ req[p].existed \in {IdleReq.existed, "pending"}
        /\ req[p].resp = Ok("pending")
        => \E m \in outbox :
             /\ m.to = req[p].email
             /\ m.confirmRaw = req[p].rawToken
             /\ m.confirmRaw # NoToken
             /\ m.unsubRaw # NoToken
             /\ Cardinality({t \in DOMAIN tokens :
                   tokens[t] = TokenRow(req[p].subscriberId, "confirm",
                                        sha256Hex(m.confirmRaw), now + ConfirmTtl)}) = 1
             /\ Cardinality({t \in DOMAIN tokens :
                   tokens[t] = TokenRow(req[p].subscriberId, "unsubscribe",
                                        sha256Hex(m.unsubRaw), now + UnsubTtl)}) = 1



\* C21: for every token issued by a handler (subscribe with confirmation, the
\* welcome step of confirm, bulk send), the stored token_hash is sha256Hex of
\* the raw value the handler holds and mails; a lookup by that raw value and
\* the token's type finds exactly that row, owned by the addressee; a confirm
\* or unsubscribe call that got a row got the row whose hash is sha256Hex of
\* its raw value, and one answered "Invalid link." had no such row; and no
\* stored row holds a raw value.
IssuedRaws == (1..(nextRaw - 1)) \cup PreRaws

LookupType(op) == IF op = "unsubscribe" THEN "unsubscribe" ELSE "confirm"

\* The row the lookup by (type, raw) finds is the only one, and subscriber i
\* owns it.
FindsExactlyOne(type, raw, i) ==
    LET ids == TokenIdsByHash(type, sha256Hex(raw))
    IN /\ Cardinality(ids) = 1
       /\ \A t \in ids : tokens[t].subscriber_id = i

C21_Mailed ==
    \A m \in outbox :
        /\ m.confirmRaw # NoToken =>
             \E i \in SubscriberIdsByEmail(m.to) :
                FindsExactlyOne("confirm", m.confirmRaw, i)
        /\ m.unsubRaw # NoToken =>
             \E i \in SubscriberIdsByEmail(m.to) :
                FindsExactlyOne("unsubscribe", m.unsubRaw, i)

C21_Held ==
    /\ \A p \in Slots :
          /\ (req[p].op = "subscribeConfirm" /\ req[p].rawToken # NoToken) =>
                /\ FindsExactlyOne("confirm", req[p].rawToken, req[p].subscriberId)
                /\ TokenIdsByHash("confirm", sha256Hex(req[p].rawToken))
                      = {req[p].tokenId}
          /\ req[p].unsubRaw # NoToken =>
                FindsExactlyOne("unsubscribe", req[p].unsubRaw, req[p].subscriberId)
    /\ \A j \in Jobs :
          job[j].pc \in {"send", "backoff", "throttle"} =>
             FindsExactlyOne("unsubscribe", job[j].unsubRaw,
                             job[j].recipients[job[j].idx])

C21_Lookup ==
    \A p \in Slots :
        req[p].op \in ConfirmOps \cup {"unsubscribe"} =>
            /\ req[p].tokenId # 0 =>
                 /\ tokens[req[p].tokenId].token_hash = sha256Hex(req[p].rawToken)
                 /\ tokens[req[p].tokenId].type = LookupType(req[p].op)
                 /\ TokenIdsByHash(LookupType(req[p].op), sha256Hex(req[p].rawToken))
                       = {req[p].tokenId}
            /\ req[p].resp = Err(400, "Invalid link.") =>
                 TokenIdsByHash(LookupType(req[p].op), sha256Hex(req[p].rawToken)) = {}

C21_NoRawStored ==
    \A t \in DOMAIN tokens :
        /\ DOMAIN tokens[t] =
              {"subscriber_id", "type", "token_hash", "expires_at", "used_at"}
        /\ tokens[t].token_hash \notin IssuedRaws

C21_TokenRoundTrip ==
    C21_Mailed /\ C21_Held /\ C21_Lookup /\ C21_NoRawStored

\* An unsubscribe call carrying the raw value mailed by a bulk send has found
\* the row that send stored.
C21_Witness ==
    \E p \in Slots, m \in outbox :
        /\ Done(p, "unsubscribe")
        /\ m.kind = "issue"
        /\ m.unsubRaw = req[p].rawToken
        /\ req[p].tokenId # 0
        /\ tokens[req[p].tokenId].token_hash = sha256Hex(m.unsubRaw)
        /\ tokens[req[p].tokenId].subscriber_id \in SubscriberIdsByEmail(m.to)



\* C22: a send-upload request that resolved its recipients and ran the
\* per-recipient loop is answered ok:true with sent, failedCount and the
\* failed list of that loop, whatever store write fails after the loop.
C22_LoopAlwaysReportsCounts ==
    \A j \in Jobs :
        job[j].pc = "done" /\ job[j].log # <<>>
        => /\ job[j].resp.ok
           /\ job[j].resp.sent = job[j].sent
           /\ job[j].resp.failedCount = Len(job[j].failed)
           /\ job[j].resp.failed = job[j].failed



\* C23: a confirm call with the raw value of a confirm token that is unused
\* and whose expires_at has passed is answered ok:false (unless the lookup
\* itself failed: "Link expired.") by its lookup step, and that step leaves
\* every subscriber row (status, confirmed_at), every token row (used_at) and
\* the outbox as they were; such a call has activated nothing and minted
\* nothing when it returns.
ExpiredUnusedConfirm(raw, nowIso) ==
    \E t \in TokenIdsByHash("confirm", sha256Hex(raw)) :
        /\ tokens[t].used_at = Null
        /\ tokens[t].expires_at # Null
        /\ tokens[t].expires_at <= nowIso

C23_LookupStep ==
    \A p \in Slots :
        /\ req[p].op \in ConfirmOps
        /\ req[p].pc = "findToken"
        /\ ExpiredUnusedConfirm(req[p].rawToken, req[p].nowIso)
        /\ req'[p] # req[p]
        => /\ req'[p].pc = "done"
           /\ ~req'[p].resp.ok
           /\ faults' = faults => req'[p].resp = LinkExpired
           /\ subscribers' = subscribers
           /\ tokens' = tokens
           /\ outbox' = outbox

C23_Returned ==
    \A p \in Slots :
        /\ req[p].op \in ConfirmOps
        /\ req[p].pc # "idle"
        /\ ExpiredUnusedConfirm(req[p].rawToken, req[p].nowIso)
        => /\ req[p].pc \in {"findToken", "done"}
           /\ ~req[p].activated
           /\ req[p].unsubRaw = NoToken
           /\ req[p].pc = "done" => ~req[p].resp.ok

C23_ExpiredConfirmChangesNothing ==
    /\ [][C23_LookupStep]_vars
    /\ []C23_Returned

\* A confirm call with an expired, unused token has been answered "Link
\* expired." and the subscriber is still pending and unconfirmed.
C23_Witness ==
    \E p \in Slots :
        /\ Done(p, "confirm")
        /\ req[p].tokenId # 0
        /\ tokens[req[p].tokenId].used_at = Null
        /\ tokens[req[p].tokenId].expires_at <= req[p].nowIso
        /\ req[p].resp = LinkExpired
        /\ subscribers[req[p].subscriberId].status = "pending"
        /\ subscribers[req[p].subscriberId].confirmed_at = Null
        /\ outbox = {}



\* C24: a confirm or unsubscribe call whose raw value hashes to no stored
\* token of the requested type (the raw value of a valid token of the other
\* type included) is ended by its lookup step with ok:false, "Invalid link."
\* when the store answered, and that step changes no subscriber row, no token
\* row and the outbox; such a call never gets past the lookup.
NoSuchToken(op, raw) ==
    /\ raw # NoToken
    /\ \A t \in DOMAIN tokens :
          tokens[t].type = LookupType(op) => tokens[t].token_hash # sha256Hex(raw)

InvalidLink == Err(400, "Invalid link.")

C24_LookupStep ==
    \A p \in Slots :
        /\ req[p].op \in ConfirmOps \cup {"unsubscribe"}
        /\ req[p].pc = "findToken"
        /\ NoSuchToken(req[p].op, req[p].rawToken)
        /\ req'[p] # req[p]
        => /\ req'[p].pc = "done"
           /\ ~req'[p].resp.ok
           /\ faults' = faults => req'[p].resp = InvalidLink
           /\ subscribers' = subscribers
           /\ tokens' = tokens
           /\ outbox' = outbox

C24_Returned ==
    \A p \in Slots :
        /\ req[p].op \in ConfirmOps \cup {"unsubscribe"}
        /\ req[p].pc # "idle"
        /\ NoSuchToken(req[p].op, req[p].rawToken)
        => /\ req[p].pc \in {"findToken", "done"}
           /\ req[p].tokenId = 0
           /\ req[p].pc = "done" => ~req[p].resp.ok

C24_UnknownTokenRejected ==
    /\ [][C24_LookupStep]_vars
    /\ []C24_Returned

\* A confirm call carrying the raw value of a stored, unused, unexpired
\* unsubscribe token has been answered "Invalid link.".
C24_Witness ==
    \E p \in Slots :
        /\ Done(p, "confirm")
        /\ req[p].resp = InvalidLink
        /\ \E t \in TokenIdsByHash("unsubscribe", sha256Hex(req[p].rawToken)) :
              /\ tokens[t].used_at = Null
              /\ tokens[t].expires_at > req[p].nowIso



\* C25: the admin middleware answers a request to a gated route (/admin,
\* /api/newsletter/send, /api/newsletter/send-upload, /api/newsletter/stats
\* and the paths below them) with NextResponse.next() only when both admin
\* credentials are configured non-empty and the Basic Authorization header
\* carries exactly that user and that password; in every other case, missing
\* credentials included, the answer is 401.
GatedRoutes ==
    { <<"admin">>, <<"admin", "newsletter">>, <<"api", "newsletter", "send">>,
      <<"api", "newsletter", "send-upload">>, <<"api", "newsletter", "stats">> }

CredentialsMatch(auth) ==
    /\ env.adminUser # <<>>
    /\ env.adminPass # <<>>
    /\ auth.creds = <<env.adminUser, env.adminPass>>

C25_AdminGateFailsClosed ==
    \A p \in Slots :
        req[p].op = "middleware" /\ req[p].path \in GatedRoutes
        => /\ req[p].resp = NextResponse => CredentialsMatch(req[p].auth)
           /\ req[p].resp # NextResponse =>
                req[p].resp.http = 401 /\ ~req[p].resp.ok

\* A request to the stats endpoint with the configured credentials has been
\* let through while another, to the send endpoint with a wrong password, has
\* been answered 401.
C25_Witness ==
    /\ req[1].op = "middleware"
    /\ req[1].path = <<"api", "newsletter", "stats">>
    /\ CredentialsMatch(req[1].auth)
    /\ req[1].resp = NextResponse
    /\ req[2].op = "middleware"
    /\ req[2].path = <<"api", "newsletter", "send">>
    /\ req[2].auth.creds # NoCreds
    /\ req[2].auth.creds[1] = env.adminUser
    /\ req[2].auth.creds[2] # env.adminPass
    /\ req[2].resp = unauthorized



\* C26: within one recipient's retried send the backoff waits are 700ms,
\* 1400ms and 2800ms in that order, at most three of them, each between two
\* consecutive Mailer calls: once the retrying has ended there is one wait
\* fewer than calls, so no wait follows the final (4th) call.
BackoffWaits(b) == SelectSeq(b.waits, LAMBDA w : w # ThrottleMs)

C26_BackoffOnlyBetweenAttempts ==
    \A j \in Jobs :
        LET b == job[j]
            w == BackoffWaits(b)
        IN /\ Len(w) <= 3
           /\ \A k \in 1..Len(w) : w[k] = 700 * Pow2(k - 1)
           /\ (b.pc \notin RetryPcs /\ b.trace # <<>>) => Len(w) = Len(b.trace) - 1



\* C27: in the send-upload loop the 600ms throttle wait is taken after every
\* recipient's processing, sent or failed, before the next recipient is
\* turned to: when the loop stands at the start of a later recipient, the
\* last wait taken for the previous one is the throttle.
C27_ThrottleAfterEveryRecipient ==
    \A j \in Jobs :
        (job[j].pc = "mint" /\ job[j].idx > 1)
        => /\ job[j].waits # <<>>
           /\ Last(job[j].waits) = ThrottleMs



\* C28: every step of a confirm or unsubscribe call leaves every subscriber
\* row other than the one named by its token's subscriber_id, and every
\* stored token row other than its token, exactly as they were (before the
\* call has a token it changes no row at all); no subscriber row is added or
\* removed.
TokenOwner(p) ==
    IF req[p].tokenId \in DOMAIN tokens
    THEN tokens[req[p].tokenId].subscriber_id
    ELSE 0

C28_StepFrame ==
    \A p \in Slots :
        /\ req[p].op \in ConfirmOps \cup {"unsubscribe"}
        /\ req'[p] # req[p]
        => /\ DOMAIN subscribers' = DOMAIN subscribers
           /\ \A i \in DOMAIN subscribers :
                i # TokenOwner(p) => subscribers'[i] = subscribers[i]
           /\ \A t \in DOMAIN tokens :
                t # req[p].tokenId => tokens'[t] = tokens[t]
           /\ \A t \in DOMAIN tokens :
                tokens'[t] = [tokens[t] EXCEPT !.used_at = tokens'[t].used_at]

C28_OnlyOwnRowsChange == [][C28_StepFrame]_vars

\* Subscriber 1 has unsubscribed with its own link while subscriber 2 is
\* still active and holds an unused unsubscribe token.
C28_Witness ==
    \E p \in Slots :
        /\ Done(p, "unsubscribe")
        /\ req[p].resp = Ok("unsubscribed")
        /\ req[p].subscriberId = 1
        /\ tokens[req[p].tokenId].used_at # Null
        /\ subscribers[1].status = "unsubscribed"
        /\ subscribers[2].status = "active"
        /\ \E t \in DOMAIN tokens :
              /\ tokens[t].subscriber_id = 2
              /\ tokens[t].type = "unsubscribe"
              /\ tokens[t].used_at = Null



\* C29: the server-rendered confirm page and POST /api/newsletter/confirm
\* have the same semantics.  With the store and the Mailer answering, a
\* finished call of either variant (a) has the outcome its token's row at the
\* lookup calls for: invalid, already confirmed, expired, confirmed; (b) when
\* confirmed, has set the subscriber's status to active and confirmed_at and
\* the token's used_at to the call's time; and (c) when confirmed, has left
\* the subscriber with welcome_sent_at set, a welcome mail accepted by the
\* Mailer, and an unsubscribe token whose raw value that mail carries.
FinishedConfirm(p) ==
    /\ req[p].op \in ConfirmOps
    /\ req[p].pc = "done"
    /\ req[p].rawToken # NoToken
    /\ faults = 0

C29_SameOutcome ==
    \A p \in Slots :
        FinishedConfirm(p) =>
            req[p].resp =
               CASE req[p].tokenId = 0 -> InvalidLink
                 [] req[p].tokUsed # Null -> Ok("already_confirmed")
                 [] req[p].tokExpires <= req[p].nowIso -> LinkExpired
                 [] OTHER -> Ok("confirmed")

C29_SameWrites ==
    \A p \in Slots :
        FinishedConfirm(p) /\ req[p].resp = Ok("confirmed") =>
            /\ subscribers[req[p].subscriberId].status = "active"
            /\ subscribers[req[p].subscriberId].confirmed_at = req[p].nowIso
            /\ tokens[req[p].tokenId].used_at = req[p].nowIso

C29_SameWelcome ==
    \A p \in Slots :
        FinishedConfirm(p) /\ req[p].resp = Ok("confirmed") =>
            /\ subscribers[req[p].subscriberId].welcome_sent_at # Null
            /\ \E m \in outbox :
                 /\ m.kind = "welcome"
                 /\ m.to = subscribers[req[p].subscriberId].email
                 /\ \E t \in DOMAIN tokens :
                      /\ tokens[t].type = "unsubscribe"
                      /\ tokens[t].subscriber_id = req[p].subscriberId
                      /\ tokens[t].token_hash = sha256Hex(m.unsubRaw)

C29_PageSameAsPost == C29_SameOutcome /\ C29_SameWrites /\ C29_SameWelcome



\* C30: while a full bulk send (no testEmail) is running, no Mailer call is
\* made for a recipient whose status has become unsubscribed.
C30_MailerCallStep ==
    \A j \in Jobs :
        /\ job[j].pc = "send"
        /\ job'[j] # job[j]
        /\ job[j].testEmail = <<>>
        => subscribers[job[j].recipients[job[j].idx]].status # "unsubscribed"

C30_NoMailAfterUnsubscribe == [][C30_MailerCallStep]_vars

====
